---- MODULE Spec2Model ----
(***************************************************************************)
(* Verification model of the analytics data layer of georankers-frontend:  *)
(*   src/src/results/data/formulas.ts       percentile / tier formulas     *)
(*   src/src/results/data/analyticsData.ts  snapshot holder + derivations  *)
(*   src/unnamed/part_000                   PromptsContent helpers         *)
(*                                                                         *)
(* analyticsData.ts holds two successive definitions of the module (lines  *)
(* 1-728 and lines 729-1403).  Where the two definitions of a function     *)
(* differ, the first keeps the source name and the second carries the      *)
(* suffix _2.                                                              *)
(*                                                                         *)
(* Encoding of JavaScript values:                                          *)
(*   - an object with a fixed schema is a record; a property that is       *)
(*     missing (undefined) is a field that is not in the record's DOMAIN;  *)
(*   - an array is a sequence;                                             *)
(*   - an object used as a dictionary (search_keywords, llm_wise_data,     *)
(*     mention_breakdown) is the sequence of its entries in insertion      *)
(*     order, each entry carrying its key in the field "id";               *)
(*   - null is the record Null;                                            *)
(*   - the value of apiResponse.analytics is a record tagged isArray, so   *)
(*     that Array.isArray can be decided;                                  *)
(*   - numbers are integers, except that the quotient-times-100 percentage *)
(*     computations are carried out in IEEE-754 double precision           *)
(*     (FloatDiv, FloatMul, MathRound); NaN is the integer NaN.            *)
(***************************************************************************)
EXTENDS Integers, Sequences, FiniteSets, TLC

VARIABLES
    currentAnalyticsData,   \* analyticsData.ts:10, the module-level snapshot holder
    localStorage,           \* the entry stored under ANALYTICS_STORAGE_KEY
    competitorData,         \* analyticsData.ts:264, constant exported at module load
    llmData,                \* analyticsData.ts:613
    recommendations,        \* analyticsData.ts:621
    executiveSummary,       \* analyticsData.ts:636
    competitorSentiment,    \* analyticsData.ts:650
    callArgs,               \* arguments of a direct call of a formulas.ts function
    ret,                    \* the most recent call: [fn, val]
    frame,                  \* the derivation on the call stack and what it has read
    inputPage               \* InputPage.tsx: the component's state, timers and requests

exports == <<competitorData, llmData, recommendations, executiveSummary,
             competitorSentiment>>

vars == <<currentAnalyticsData, localStorage, exports, callArgs, ret, frame, inputPage>>

(***************************************************************************)
(* Bounds of the model.                                                    *)
(***************************************************************************)
MaxSmallPop == 3     \* populations enumerated exhaustively up to this length
MaxPop == 40         \* two-block populations up to this length
MaxBrands == 3       \* longest brands array

(***************************************************************************)
(* JavaScript values.                                                      *)
(***************************************************************************)
Null == [type |-> "null"]

NoCall == [fn |-> "none"]

NoArgs == [none |-> TRUE]

NoFrame == [fn |-> "none", pc |-> 0, seen |-> <<>>]

NotMounted == [mounted |-> FALSE]

Has(obj, field) == field \in DOMAIN obj

\* obj.field || 0
OrZero(obj, field) == IF Has(obj, field) THEN obj[field] ELSE 0

\* obj.field || dflt, for string-valued fields ('' is falsy)
OrDefault(obj, field, dflt) ==
    IF Has(obj, field) /\ obj[field] # "" THEN obj[field] ELSE dflt

Min(a, b) == IF a <= b THEN a ELSE b

RECURSIVE SumSeq(_)
SumSeq(s) == IF Len(s) = 0 THEN 0 ELSE s[1] + SumSeq(Tail(s))

\* Array.prototype.filter
RECURSIVE SelectIdx(_, _, _)
SelectIdx(keep, i, n) ==
    IF i > n THEN <<>>
    ELSE (IF i \in keep THEN <<i>> ELSE <<>>) \o SelectIdx(keep, i + 1, n)

\* Array.prototype.findIndex on the indices satisfying a predicate (0 = not found, 1-based)
FirstIdx(hits) == IF hits = {} THEN 0 ELSE CHOOSE i \in hits : \A j \in hits : i <= j

(***************************************************************************)
(* IEEE-754 double precision, for (a / b) * 100 followed by Math.round.    *)
(* A double is [kind |-> "zero" | "nan" | "inf"] or                        *)
(* [kind |-> "num", m |-> 53 mantissa bits (most significant first, m[1]=1)*)
(* , e |-> exponent], denoting (m as an integer) * 2^(e - 52).  Operands   *)
(* are naturals below 2^12, which keeps every intermediate below 2^31.     *)
(***************************************************************************)
NaN == -1

\* Infinity, as the result of rounding x / 0 for x > 0
Infinity == 2147483647

MantissaBits == 53

LimbBits == 18

Bits(n, w) == [i \in 1..w |-> (n \div 2^(w - i)) % 2]

RECURSIVE BitsToNat(_)
BitsToNat(s) ==
    IF Len(s) = 0 THEN 0
    ELSE 2 * BitsToNat(SubSeq(s, 1, Len(s) - 1)) + s[Len(s)]

RECURSIVE NatBits(_)
NatBits(n) == IF n = 0 THEN <<>> ELSE NatBits(n \div 2) \o <<n % 2>>

\* scale a / b into [1, 2): a * 2^(-e) / b
RECURSIVE Normalize(_, _, _)
Normalize(a, b, e) ==
    IF a < b THEN Normalize(2 * a, b, e - 1)
    ELSE IF a >= 2 * b THEN Normalize(a, 2 * b, e + 1)
    ELSE [a |-> a, b |-> b, e |-> e]

\* s + 1 on a bit string; the result is one bit longer (carry first)
IncBits(s) ==
    LET zeros == {i \in 1..Len(s) : s[i] = 0}
    IN  IF zeros = {} THEN <<1>> \o [i \in 1..Len(s) |-> 0]
        ELSE LET p == CHOOSE i \in zeros : \A j \in zeros : j <= i
             IN  <<0>> \o [i \in 1..Len(s) |->
                              IF i < p THEN s[i] ELSE IF i = p THEN 1 ELSE 0]

\* round-to-nearest, ties-to-even, of the bit string s (s[1] = 1) to 53 bits
RoundToDouble(s, sticky, e) ==
    LET keep    == SubSeq(s, 1, MantissaBits)
        guard   == IF Len(s) > MantissaBits THEN s[MantissaBits + 1] ELSE 0
        tail    == sticky \/ \E i \in (MantissaBits + 2)..Len(s) : s[i] = 1
        roundUp == guard = 1 /\ (tail \/ keep[MantissaBits] = 1)
        inc     == IncBits(keep)
    IN  IF ~roundUp THEN [kind |-> "num", m |-> keep, e |-> e]
        ELSE IF inc[1] = 1
             THEN [kind |-> "num", m |-> SubSeq(inc, 1, MantissaBits), e |-> e + 1]
             ELSE [kind |-> "num", m |-> SubSeq(inc, 2, MantissaBits + 1), e |-> e]

\* the double nearest to a / b
FloatDiv(a, b) ==
    IF b = 0 THEN (IF a = 0 THEN [kind |-> "nan"] ELSE [kind |-> "inf"])
    ELSE IF a = 0 THEN [kind |-> "zero"]
    ELSE LET n  == Normalize(a, b, 0)
             x1 == (n.a - n.b) * 2^LimbBits
             x2 == (x1 % n.b) * 2^LimbBits
             x3 == (x2 % n.b) * 2^LimbBits
             s  == <<1>> \o Bits(x1 \div n.b, LimbBits) \o Bits(x2 \div n.b, LimbBits)
                         \o Bits(x3 \div n.b, LimbBits)
         IN  RoundToDouble(s, x3 % n.b > 0, n.e)

\* the double nearest to f * k, k a natural below 2^7
FloatMul(f, k) ==
    IF f.kind # "num" THEN f
    ELSE LET m  == <<0>> \o f.m
             p3 == BitsToNat(SubSeq(m, 2 * LimbBits + 1, 3 * LimbBits)) * k
             p2 == BitsToNat(SubSeq(m, LimbBits + 1, 2 * LimbBits)) * k + p3 \div 2^LimbBits
             p1 == BitsToNat(SubSeq(m, 1, LimbBits)) * k + p2 \div 2^LimbBits
             p  == NatBits(p1) \o Bits(p2 % 2^LimbBits, LimbBits)
                               \o Bits(p3 % 2^LimbBits, LimbBits)
         IN  RoundToDouble(p, FALSE, f.e + (Len(p) - MantissaBits))

\* Math.round of a non-negative double below 2^31 (ties round up)
MathRound(f) ==
    IF f.kind = "nan" THEN NaN
    ELSE IF f.kind = "inf" THEN Infinity
    ELSE IF f.kind = "zero" THEN 0
    ELSE IF f.e < -1 THEN 0
    ELSE IF f.e = -1 THEN 1
    ELSE BitsToNat(SubSeq(f.m, 1, f.e + 1)) + f.m[f.e + 2]

\* Math.round((a / b) * 100)
RoundPercent(a, b) == MathRound(FloatMul(FloatDiv(a, b), 100))

\* the mathematical round(100 * a / b), halves rounded up, b > 0
ExactRoundPercent(a, b) == (200 * a + b) \div (2 * b)

(***************************************************************************)
(* Array.prototype.sort with a comparator (a, b) => key(b) - key(a):       *)
(* descending by key and stable (ECMAScript 2019).  keys[i] is the key of  *)
(* s[i]; the result is computed by insertion, each element going after the *)
(* elements whose key is not smaller.                                      *)
(***************************************************************************)
\* an unstable insertion: the element goes before the elements of equal key
InsertDesc_unstable(sorted, n, keys) ==
    LET p == Cardinality({i \in 1..Len(sorted) : keys[sorted[i]] > keys[n]})
    IN  SubSeq(sorted, 1, p) \o <<n>> \o SubSeq(sorted, p + 1, Len(sorted))

InsertDesc(sorted, n, keys) ==
    LET p == Cardinality({i \in 1..Len(sorted) : keys[sorted[i]] >= keys[n]})
    IN  SubSeq(sorted, 1, p) \o <<n>> \o SubSeq(sorted, p + 1, Len(sorted))

RECURSIVE SortIdx(_, _)
SortIdx(keys, n) ==
    IF n = 0 THEN <<>> ELSE InsertDesc(SortIdx(keys, n - 1), n, keys)

SortDesc(s, keys) ==
    LET idx == SortIdx(keys, Len(s)) IN [i \in 1..Len(s) |-> s[idx[i]]]

\* comparator (a, b) => a - b
SortAsc(s) == SortDesc(s, [i \in 1..Len(s) |-> -s[i]])

(***************************************************************************)
(* formulas.ts                                                             *)
(***************************************************************************)
calculatePercentile(value, allValues) ==
    LET sorted     == SortAsc(allValues)
        lowerCount == Cardinality({i \in 1..Len(sorted) : sorted[i] < value})
    IN  RoundPercent(lowerCount, Len(sorted))

\* the High threshold excludes 70 itself
getTierFromPercentile_strict(percentile) ==
    IF percentile > 70 THEN "High"
    ELSE IF percentile >= 40 THEN "Medium"
    ELSE "Low"

getTierFromPercentile(percentile) ==
    IF percentile >= 70 THEN "High"
    ELSE IF percentile >= 40 THEN "Medium"
    ELSE "Low"

(***************************************************************************)
(* analyticsData.ts: access to the snapshot.                               *)
(***************************************************************************)
IsArray(v) == v.isArray

\* setAnalyticsData's and loadAnalyticsFromStorage's test of a payload
IsValidPayload(p) ==
    p # Null /\ Has(p, "analytics") /\ IsArray(p.analytics)

getAnalytics ==
    IF currentAnalyticsData = Null THEN Null
    ELSE IF ~Has(currentAnalyticsData, "analytics") THEN Null
    ELSE IF ~IsArray(currentAnalyticsData.analytics) THEN Null
    ELSE IF Len(currentAnalyticsData.analytics.items) = 0 THEN Null
    ELSE LET wrapper == currentAnalyticsData.analytics.items[1]
         IN  IF ~Has(wrapper, "analytics") THEN Null ELSE wrapper.analytics

getBrandName ==
    IF getAnalytics = Null THEN "" ELSE OrDefault(getAnalytics, "brand_name", "")

\* the logo strings of the model: none, a full URL, a bare domain
formatLogoUrl(logo) ==
    CASE logo = "" -> ""
      [] logo = "https://cdn.example/acme.png" -> logo
      [] logo = "www.beta.com/about" ->
             "https://www.google.com/s2/favicons?domain=https://www.beta.com&sz=128"
      [] OTHER -> "https://www.google.com/s2/favicons?domain=https://www." \o logo \o "&sz=128"

getSearchKeywordsWithPrompts ==
    IF getAnalytics = Null \/ ~Has(getAnalytics, "search_keywords") THEN <<>>
    ELSE LET kws == getAnalytics.search_keywords
         IN  [i \in 1..Len(kws) |->
                 [id      |-> kws[i].id,
                  name    |-> kws[i].name,
                  prompts |-> IF Has(kws[i], "prompts") THEN kws[i].prompts ELSE <<>>]]

\* brand.mention_breakdown?.[keywordId] || 0
BreakdownAt(brand, keywordId) ==
    IF ~Has(brand, "mention_breakdown") THEN 0
    ELSE LET hits == {i \in 1..Len(brand.mention_breakdown) :
                          brand.mention_breakdown[i].id = keywordId}
         IN  IF hits = {} THEN 0
             ELSE brand.mention_breakdown[CHOOSE i \in hits : TRUE].count

NormalizedBrand(b) ==
    LET common == [brand         |-> b.brand,
                   geo_score     |-> OrZero(b, "geo_score"),
                   mention_score |-> OrZero(b, "mention_score"),
                   mention_count |-> OrZero(b, "mention_count"),
                   logo          |-> formatLogoUrl(OrDefault(b, "logo", "")),
                   geo_tier      |-> OrDefault(b, "geo_tier", "Low"),
                   mention_tier  |-> OrDefault(b, "mention_tier", "Low"),
                   summary       |-> OrDefault(b, "summary", ""),
                   outlook       |-> OrDefault(b, "outlook", "Neutral")]
    IN  IF Has(b, "mention_breakdown")
        THEN [f \in DOMAIN common \cup {"mention_breakdown"} |->
                 IF f = "mention_breakdown" THEN b.mention_breakdown ELSE common[f]]
        ELSE common

getBrandInfoWithLogos ==
    IF getAnalytics = Null \/ ~Has(getAnalytics, "brands") THEN <<>>
    ELSE [i \in 1..Len(getAnalytics.brands) |-> NormalizedBrand(getAnalytics.brands[i])]

\* the indices of brandInfo whose brand is brandName
BrandHits(brandInfo, brandName) ==
    {i \in 1..Len(brandInfo) : brandInfo[i].brand = brandName}

getCompetitorData ==
    LET info == getBrandInfoWithLogos
        kws  == getSearchKeywordsWithPrompts
        rows == [i \in 1..Len(info) |->
                    [name          |-> info[i].brand,
                     keywordScores |-> [k \in 1..Len(kws) |-> BreakdownAt(info[i], kws[k].id)],
                     totalScore    |-> info[i].geo_score,
                     logo          |-> info[i].logo]]
    IN  SortDesc(rows, [i \in 1..Len(rows) |-> rows[i].totalScore])

getTotalPromptCount ==
    IF getAnalytics = Null \/ ~Has(getAnalytics, "search_keywords") THEN 0
    ELSE LET kws == getAnalytics.search_keywords
         IN  SumSeq([i \in 1..Len(kws) |->
                        IF Has(kws[i], "prompts") THEN Len(kws[i].prompts) ELSE 0])

\* PromptsContent (part_000:47-48): keywordsWithPrompts.reduce(acc + k.prompts.length)
PromptsContent_totalPrompts ==
    LET kws == getSearchKeywordsWithPrompts
    IN  SumSeq([i \in 1..Len(kws) |-> Len(kws[i].prompts)])

LlmEntries ==
    IF getAnalytics = Null \/ ~Has(getAnalytics, "llm_wise_data") THEN <<>>
    ELSE getAnalytics.llm_wise_data

\* first definition: prompts is the total over all keywords
getLlmData ==
    [i \in 1..Len(LlmEntries) |->
        [id                |-> LlmEntries[i].id,
         mentions_count    |-> OrZero(LlmEntries[i], "mentions_count"),
         prompts           |-> getTotalPromptCount,
         average_rank      |-> OrZero(LlmEntries[i], "average_rank"),
         sources           |-> OrZero(LlmEntries[i], "sources"),
         _original_prompts |-> OrZero(LlmEntries[i], "prompts")]]

\* second definition: prompts is the model's own field
getLlmData_2 ==
    [i \in 1..Len(LlmEntries) |->
        [id             |-> LlmEntries[i].id,
         mentions_count |-> OrZero(LlmEntries[i], "mentions_count"),
         prompts        |-> OrZero(LlmEntries[i], "prompts"),
         average_rank   |-> OrZero(LlmEntries[i], "average_rank"),
         sources        |-> OrZero(LlmEntries[i], "sources")]]

getCompetitorSentiment ==
    LET info == getBrandInfoWithLogos
    IN  [i \in 1..Len(info) |->
            [brand   |-> info[i].brand,
             summary |-> info[i].summary,
             outlook |-> info[i].outlook,
             logo    |-> info[i].logo]]

(***************************************************************************)
(* analyticsData.ts: brand position, response rates, position breakdown.   *)
(***************************************************************************)
\* llmData?.[key]?.[field] || 0
LlmField(entries, key, field) ==
    LET hits == {i \in 1..Len(entries) : entries[i].id = key}
    IN  IF hits = {} THEN 0 ELSE OrZero(entries[CHOOSE i \in hits : TRUE], field)

\* the percentages are computed also when the counters add up to 0
getAIVisibilityMetrics_noZeroGuard ==
    IF getAnalytics = Null
    THEN [score |-> 0, tier |-> "Low",
          positionBreakdown |-> [topPosition |-> 0, midPosition |-> 0, lowPosition |-> 0],
          brandPosition |-> 0, totalBrands |-> 0]
    ELSE LET analytics     == getAnalytics
             entries       == LlmEntries
             brands        == IF Has(analytics, "brands") THEN analytics.brands ELSE <<>>
             hits          == IF Has(analytics, "brand_name")
                              THEN BrandHits(brands, analytics.brand_name) ELSE {}
             found         == hits # {}
             brandInfo     == brands[FirstIdx(hits)]
             totalT1       == LlmField(entries, "gemini", "t1") + LlmField(entries, "openai", "t1")
             totalT2       == LlmField(entries, "gemini", "t2") + LlmField(entries, "openai", "t2")
             totalT3       == LlmField(entries, "gemini", "t3") + LlmField(entries, "openai", "t3")
             totalMentions == totalT1 + totalT2 + totalT3
             sortedBrands  == SortDesc(brands, [i \in 1..Len(brands) |-> OrZero(brands[i], "geo_score")])
             sortedHits    == IF Has(analytics, "brand_name")
                              THEN BrandHits(sortedBrands, analytics.brand_name) ELSE {}
             brandPosition == (FirstIdx(sortedHits) - 1) + 1
         IN  [score |-> IF found THEN OrZero(brandInfo, "geo_score") ELSE 0,
              tier  |-> IF found THEN OrDefault(brandInfo, "geo_tier", "Low") ELSE "Low",
              positionBreakdown |->
                  [topPosition |-> IF totalMentions >= 0 THEN RoundPercent(totalT1, totalMentions) ELSE 0,
                   midPosition |-> IF totalMentions >= 0 THEN RoundPercent(totalT2, totalMentions) ELSE 0,
                   lowPosition |-> IF totalMentions >= 0 THEN RoundPercent(totalT3, totalMentions) ELSE 0],
              brandPosition |-> brandPosition,
              totalBrands   |-> Len(brands)]

\* first definition (lines 282-368): t1/t2/t3 counters of gemini and openai,
\* position by geo_score over the raw brands array
getAIVisibilityMetrics ==
    IF getAnalytics = Null
    THEN [score |-> 0, tier |-> "Low",
          positionBreakdown |-> [topPosition |-> 0, midPosition |-> 0, lowPosition |-> 0],
          brandPosition |-> 0, totalBrands |-> 0]
    ELSE LET analytics     == getAnalytics
             entries       == LlmEntries
             brands        == IF Has(analytics, "brands") THEN analytics.brands ELSE <<>>
             hits          == IF Has(analytics, "brand_name")
                              THEN BrandHits(brands, analytics.brand_name) ELSE {}
             found         == hits # {}
             brandInfo     == brands[FirstIdx(hits)]
             totalT1       == LlmField(entries, "gemini", "t1") + LlmField(entries, "openai", "t1")
             totalT2       == LlmField(entries, "gemini", "t2") + LlmField(entries, "openai", "t2")
             totalT3       == LlmField(entries, "gemini", "t3") + LlmField(entries, "openai", "t3")
             totalMentions == totalT1 + totalT2 + totalT3
             sortedBrands  == SortDesc(brands, [i \in 1..Len(brands) |-> OrZero(brands[i], "geo_score")])
             sortedHits    == IF Has(analytics, "brand_name")
                              THEN BrandHits(sortedBrands, analytics.brand_name) ELSE {}
             brandPosition == (FirstIdx(sortedHits) - 1) + 1
         IN  [score |-> IF found THEN OrZero(brandInfo, "geo_score") ELSE 0,
              tier  |-> IF found THEN OrDefault(brandInfo, "geo_tier", "Low") ELSE "Low",
              positionBreakdown |->
                  [topPosition |-> IF totalMentions > 0 THEN RoundPercent(totalT1, totalMentions) ELSE 0,
                   midPosition |-> IF totalMentions > 0 THEN RoundPercent(totalT2, totalMentions) ELSE 0,
                   lowPosition |-> IF totalMentions > 0 THEN RoundPercent(totalT3, totalMentions) ELSE 0],
              brandPosition |-> brandPosition,
              totalBrands   |-> Len(brands)]

\* data.average_brand_rank || data.average_rank || 0
AvgRank(data) ==
    IF Has(data, "average_brand_rank") /\ data.average_brand_rank # 0
    THEN data.average_brand_rank
    ELSE OrZero(data, "average_rank")

\* the forEach over Object.values(llmData) of lines 1048-1062, from entry i on
RECURSIVE CountPositions(_, _, _)
CountPositions(entries, i, acc) ==
    IF i > Len(entries) THEN acc
    ELSE LET data == entries[i]
             qwb  == OrZero(data, "queries_with_brand")
             rank == AvgRank(data)
         IN  IF qwb = 0 THEN CountPositions(entries, i + 1, acc)
             ELSE CountPositions(entries, i + 1,
                    [total |-> acc.total + qwb,
                     top   |-> acc.top + (IF rank > 0 /\ rank <= 1 THEN qwb ELSE 0),
                     mid   |-> acc.mid + (IF rank > 1 /\ rank <= 4 THEN qwb ELSE 0),
                     low   |-> acc.low + (IF rank > 4 THEN qwb ELSE 0)])

\* second definition (lines 1012-1082): rank-derived counters,
\* position by geo_score over getBrandInfoWithLogos
getAIVisibilityMetrics_2 ==
    LET brandName  == getBrandName
        info       == getBrandInfoWithLogos
        hits       == BrandHits(info, brandName)
        found      == hits # {}
        brandData  == info[FirstIdx(hits)]
        totalBrands   == Len(info)
        sortedByScore == SortDesc(info, [i \in 1..Len(info) |-> info[i].geo_score])
        brandIndex    == FirstIdx(BrandHits(sortedByScore, brandName)) - 1
        counts        == CountPositions(LlmEntries, 1, [total |-> 0, top |-> 0, mid |-> 0, low |-> 0])
        queriesWithMentions == IF counts.total # 0 THEN counts.total ELSE 1
    IN  [score |-> IF found THEN brandData.geo_score ELSE 0,
         tier  |-> IF found THEN brandData.geo_tier ELSE "Low",
         brandPosition |-> IF brandIndex >= 0 THEN brandIndex + 1 ELSE totalBrands,
         totalBrands   |-> totalBrands,
         explanation   |-> "",
         positionBreakdown |->
             [topPosition |-> IF queriesWithMentions > 0
                              THEN RoundPercent(counts.top, queriesWithMentions) ELSE 0,
              midPosition |-> IF queriesWithMentions > 0
                              THEN RoundPercent(counts.mid, queriesWithMentions) ELSE 0,
              lowPosition |-> IF queriesWithMentions > 0
                              THEN RoundPercent(counts.low, queriesWithMentions) ELSE 0]]

\* without a record of the subject, tier and mentions fall back to the top brand
getMentionsPosition_topFallback ==
    LET brandName == getBrandName
        info      == getBrandInfoWithLogos
        sortedByMentions == SortDesc(info, [i \in 1..Len(info) |-> info[i].mention_score])
        brandIndex == FirstIdx(BrandHits(sortedByMentions, brandName)) - 1
        hits       == BrandHits(info, brandName)
    IN  [position |-> IF brandIndex >= 0 THEN brandIndex + 1 ELSE Len(sortedByMentions),
         tier     |-> IF hits # {} THEN info[FirstIdx(hits)].mention_tier
                      ELSE IF Len(sortedByMentions) > 0 THEN sortedByMentions[1].mention_tier
                      ELSE "Low",
         totalBrands      |-> Len(info),
         topBrandMentions |-> IF Len(sortedByMentions) > 0
                              THEN sortedByMentions[1].mention_score ELSE 0,
         brandMentions    |-> IF hits # {} THEN info[FirstIdx(hits)].mention_score
                              ELSE IF Len(sortedByMentions) > 0
                              THEN sortedByMentions[1].mention_score ELSE 0,
         allBrandMentions |-> [i \in 1..Len(info) |->
                                  [id |-> info[i].brand, score |-> info[i].mention_score]]]

\* lines 393-430 (and, identically, 1107-1143)
getMentionsPosition ==
    LET brandName == getBrandName
        info      == getBrandInfoWithLogos
        sortedByMentions == SortDesc(info, [i \in 1..Len(info) |-> info[i].mention_score])
        brandIndex == FirstIdx(BrandHits(sortedByMentions, brandName)) - 1
        hits       == BrandHits(info, brandName)
    IN  [position |-> IF brandIndex >= 0 THEN brandIndex + 1 ELSE Len(sortedByMentions),
         tier     |-> IF hits # {} THEN info[FirstIdx(hits)].mention_tier ELSE "Low",
         totalBrands      |-> Len(info),
         topBrandMentions |-> IF Len(sortedByMentions) > 0
                              THEN sortedByMentions[1].mention_score ELSE 0,
         brandMentions    |-> IF hits # {} THEN info[FirstIdx(hits)].mention_score ELSE 0,
         allBrandMentions |-> [i \in 1..Len(info) |->
                                  [id |-> info[i].brand, score |-> info[i].mention_score]]]

\* rows.filter(b => !b.isTestBrand).slice(0, 2)
TopTwoOthers(rows) ==
    LET others == SelectIdx({i \in 1..Len(rows) : ~rows[i].isTestBrand}, 1, Len(rows))
    IN  [k \in 1..Min(2, Len(others)) |-> rows[others[k]]]

\* [...topTwo] followed by push(rows.find(b => b.isTestBrand)) when there is one
WithTestBrand(topTwo, rows) ==
    LET tests == {i \in 1..Len(rows) : rows[i].isTestBrand}
    IN  IF tests = {} THEN topTwo ELSE topTwo \o <<rows[FirstIdx(tests)]>>

Rates(rows) == [i \in 1..Len(rows) |-> rows[i].responseRate]

\* first definition (lines 448-482)
getBrandMentionResponseRates ==
    LET brandName == getBrandName
        info      == getBrandInfoWithLogos
        allBrandsWithRates == [i \in 1..Len(info) |->
                                  [brand        |-> info[i].brand,
                                   responseRate |-> info[i].mention_score,
                                   logo         |-> info[i].logo,
                                   isTestBrand  |-> info[i].brand = brandName]]
        sortedBrands   == SortDesc(allBrandsWithRates, Rates(allBrandsWithRates))
        combinedBrands == WithTestBrand(TopTwoOthers(sortedBrands), sortedBrands)
    IN  SortDesc(combinedBrands, Rates(combinedBrands))

\* second definition (lines 1148-1181)
getBrandMentionResponseRates_2 ==
    LET brandName == getBrandName
        info      == getBrandInfoWithLogos
        mapped    == [i \in 1..Len(info) |->
                         [brand        |-> info[i].brand,
                          responseRate |-> Min(info[i].mention_score, 100),
                          logo         |-> info[i].logo,
                          isTestBrand  |-> info[i].brand = brandName]]
        brandsWithRates == SortDesc(mapped, Rates(mapped))
    IN  WithTestBrand(TopTwoOthers(brandsWithRates), brandsWithRates)

\* f < g on non-negative doubles
FloatLess(f, g) ==
    IF g.kind # "num" THEN FALSE
    ELSE IF f.kind # "num" THEN TRUE
    ELSE \/ f.e < g.e
         \/ /\ f.e = g.e
            /\ \E i \in 1..MantissaBits :
                   /\ f.m[i] < g.m[i]
                   /\ \A j \in 1..(i - 1) : f.m[j] = g.m[j]

\* the sum of Object.values(b.mention_breakdown), 0 when it is missing
BreakdownTotal(b) ==
    IF ~Has(b, "mention_breakdown") THEN 0
    ELSE SumSeq([i \in 1..Len(b.mention_breakdown) |-> b.mention_breakdown[i].count])

\* lines 485-510
getBrandMentionPercentile ==
    LET brandName    == getBrandName
        info         == getBrandInfoWithLogos
        totalPrompts == getTotalPromptCount
    IN  IF totalPrompts = 0 \/ Len(info) = 0 THEN 0
        ELSE LET rate(i)   == FloatMul(FloatDiv(BreakdownTotal(info[i]), totalPrompts), 100)
                 hits      == BrandHits(info, brandName)
                 brandRate == IF hits = {} THEN [kind |-> "zero"] ELSE rate(FirstIdx(hits))
                 brandsWithLowerRate ==
                     Cardinality({i \in 1..Len(info) : FloatLess(rate(i), brandRate)})
             IN  RoundPercent(brandsWithLowerRate, Len(info))

\* lines 513-527
getAllBrandMentionsWithTiers ==
    LET info        == getBrandInfoWithLogos
        allMentions == [i \in 1..Len(info) |-> info[i].mention_count]
        rows        == [i \in 1..Len(info) |->
                           [brand      |-> info[i].brand,
                            mentions   |-> info[i].mention_count,
                            percentile |-> calculatePercentile(info[i].mention_count, allMentions),
                            tier       |-> info[i].mention_tier,
                            logo       |-> info[i].logo]]
    IN  SortDesc(rows, [i \in 1..Len(rows) |-> rows[i].mentions])

getRecommendations ==
    IF getAnalytics = Null \/ ~Has(getAnalytics, "recommendations") THEN <<>>
    ELSE getAnalytics.recommendations

DefaultExecutiveSummary ==
    [brand_score_and_tier |-> "", strengths |-> <<>>, weaknesses |-> <<>>,
     competitor_positioning |-> [leaders |-> <<>>, mid_tier |-> <<>>, laggards |-> <<>>],
     prioritized_actions |-> <<>>, conclusion |-> ""]

getExecutiveSummary ==
    IF getAnalytics = Null \/ ~Has(getAnalytics, "executive_summary")
    THEN DefaultExecutiveSummary
    ELSE getAnalytics.executive_summary

\* only the holder is tested, not the analytics object inside it
hasAnalyticsData_holderOnly == currentAnalyticsData # Null

hasAnalyticsData == currentAnalyticsData # Null /\ getAnalytics # Null

\* lines 669-677
getAIVisibility ==
    LET info == getBrandInfoWithLogos
        hits == BrandHits(info, getBrandName)
    IN  [geo_score  |-> IF hits # {} THEN info[FirstIdx(hits)].geo_score ELSE 0,
         brand_tier |-> IF hits # {} THEN info[FirstIdx(hits)].geo_tier ELSE "Low"]

\* lines 680-689
getBrandMentions ==
    LET info == getBrandInfoWithLogos
        hits == BrandHits(info, getBrandName)
    IN  [mention_count |-> IF hits # {} THEN info[FirstIdx(hits)].mention_count ELSE 0,
         mention_score |-> IF hits # {} THEN info[FirstIdx(hits)].mention_score ELSE 0,
         mention_tier  |-> IF hits # {} THEN info[FirstIdx(hits)].mention_tier ELSE "Low"]

\* lines 707-711
getPrimaryBrandTotalMentions ==
    LET info == getBrandInfoWithLogos
        hits == BrandHits(info, getBrandName)
    IN  IF hits # {} THEN info[FirstIdx(hits)].mention_count ELSE 0

(***************************************************************************)
(* Payloads.                                                               *)
(***************************************************************************)
\* { analytics: [ { id, analytics: data } ] }
Payload(data) ==
    [type |-> "object",
     analytics |-> [isArray |-> TRUE, items |-> <<[id |-> 1, analytics |-> data]>>]]

\* a record with the fields of base and, when opt is <<v>>, the field name with value v
WithOpt(base, name, opt) ==
    IF Len(opt) = 0 THEN base
    ELSE [f \in DOMAIN base \cup {name} |-> IF f = name THEN opt[1] ELSE base[f]]

\* the brand of the i-th record of a brands array (names are distinct)
BrandNameAt(i) == IF i <= 3 THEN <<"Acme", "Beta", "Gamma">>[i] ELSE "Brand" \o ToString(i)

GeoScores == {<<>>, <<10>>}

MentionScores == {<<>>, <<50>>, <<80>>, <<120>>, <<150>>}

\* the fields of a brand record that the position and rate derivations do not read
BrandBase(name) ==
    CASE name = "Acme" ->
             [brand |-> name, logo |-> "https://cdn.example/acme.png", geo_tier |-> "High",
              mention_tier |-> "Medium", mention_count |-> 7, outlook |-> "Positive",
              summary |-> "leader",
              mention_breakdown |-> <<[id |-> "k1", count |-> 3], [id |-> "k2", count |-> 2]>>]
      [] name = "Beta" ->
             [brand |-> name, logo |-> "www.beta.com/about", geo_tier |-> "Medium",
              mention_count |-> 4,
              mention_breakdown |-> <<[id |-> "k1", count |-> 1]>>]
      [] OTHER -> [brand |-> name]

\* a record carries every mention_score without a geo_score, and with the
\* geo_score no mention_score or the mention_score 80
BrandRecords(name) ==
    {WithOpt(WithOpt(BrandBase(name), "geo_score", gm[1]), "mention_score", gm[2]) :
        gm \in {x \in GeoScores \X MentionScores : Len(x[1]) = 0 \/ x[2] \in {<<>>, <<80>>}}}

\* the brands arrays: up to MaxBrands records, the i-th named BrandNameAt(i)
RECURSIVE BrandArraysOfLen(_)
BrandArraysOfLen(n) ==
    IF n = 0 THEN {<<>>}
    ELSE {Append(bs, b) : bs \in BrandArraysOfLen(n - 1), b \in BrandRecords(BrandNameAt(n))}

BrandArrays == UNION {BrandArraysOfLen(n) : n \in 0..MaxBrands}

\* the subject of a snapshot: one of the brands, a name no record has, or none
Subjects == {<<"Acme">>, <<"Beta">>, <<"Gamma">>, <<"Z">>, <<>>}

Keywords1 == <<[id |-> "k1", name |-> "crm", prompts |-> <<"p1", "p2">>]>>

Keywords2 ==
    <<[id |-> "k1", name |-> "crm", prompts |-> <<"p1">>],
      [id |-> "k2", name |-> "erp", prompts |-> <<"p2", "p3">>]>>

Llm1 ==
    <<[id |-> "gemini", mentions_count |-> 4, prompts |-> 5, average_rank |-> 2, sources |-> 3,
       queries_with_brand |-> 2, average_brand_rank |-> 1, t1 |-> 1, t2 |-> 1],
      [id |-> "openai", mentions_count |-> 1, prompts |-> 5, sources |-> 1,
       queries_with_brand |-> 1, average_brand_rank |-> 5, t3 |-> 1]>>

\* the snapshots of the brand derivations
BrandSnapshots ==
    {Payload(WithOpt([brands |-> bs, search_keywords |-> Keywords2, llm_wise_data |-> Llm1],
                     "brand_name", bn)) :
        bs \in BrandArrays, bn \in Subjects}

\* the llm_wise_data entries of the position breakdown derivations
LlmRecords(id) ==
    {WithOpt(WithOpt(WithOpt(WithOpt([id |-> id],
        "queries_with_brand", q), "average_brand_rank", b), "average_rank", r), "prompts", p) :
        q \in {<<>>, <<17>>, <<23>>}, b \in {<<>>, <<1>>, <<4>>, <<5>>},
        r \in {<<>>, <<2>>}, p \in {<<>>, <<5>>}}

LlmMaps ==
    {<<>>} \cup {<<g>> : g \in LlmRecords("gemini")} \cup {<<o>> : o \in LlmRecords("openai")}
           \cup {<<g, o>> : g \in LlmRecords("gemini"), o \in LlmRecords("openai")}

KeywordMaps ==
    {<<>>, Keywords1, Keywords2, <<[id |-> "k1", name |-> "crm"]>>}

FixedBrands ==
    <<WithOpt(BrandBase("Acme"), "mention_score", <<80>>),
      WithOpt(BrandBase("Beta"), "mention_score", <<50>>),
      BrandBase("Gamma")>>

LlmSnapshots ==
    {Payload(WithOpt(WithOpt([brand_name |-> "Acme", brands |-> FixedBrands],
                             "search_keywords", k), "llm_wise_data", l)) :
        k \in {<<>>} \cup {<<km>> : km \in KeywordMaps},
        l \in {<<>>} \cup {<<lm>> : lm \in LlmMaps}}

\* the payloads of the store operations
Snapshot1 ==
    Payload([brand_name |-> "Acme",
             brands |-> <<WithOpt(WithOpt(BrandBase("Acme"), "geo_score", <<10>>),
                                  "mention_score", <<80>>),
                          WithOpt(BrandBase("Beta"), "mention_score", <<50>>)>>,
             search_keywords |-> Keywords2,
             llm_wise_data |-> Llm1,
             recommendations |-> <<"add schema markup">>,
             executive_summary |-> [brand_score_and_tier |-> "10 / High", strengths |-> <<"docs">>,
                  weaknesses |-> <<>>,
                  competitor_positioning |-> [leaders |-> <<"Acme">>, mid_tier |-> <<"Beta">>,
                                              laggards |-> <<>>],
                  prioritized_actions |-> <<>>, conclusion |-> "ok"]])

Snapshot2 ==
    Payload([brand_name |-> "Beta",
             brands |-> <<WithOpt(BrandBase("Gamma"), "geo_score", <<10>>),
                          WithOpt(BrandBase("Beta"), "geo_score", <<10>>)>>,
             search_keywords |-> Keywords1])

EmptyAnalytics == [type |-> "object", analytics |-> [isArray |-> TRUE, items |-> <<>>]]

NoInnerAnalytics ==
    [type |-> "object", analytics |-> [isArray |-> TRUE, items |-> <<[id |-> 1]>>]]

\* the old data structure: an inner analytics object without a brands array
OldStructure == Payload([brand_name |-> "Acme", search_keywords |-> Keywords1])

NoAnalyticsField == [type |-> "object"]

AnalyticsNotArray == [type |-> "object", analytics |-> [isArray |-> FALSE]]

ApiResponses ==
    {Snapshot1, Snapshot2, EmptyAnalytics, NoInnerAnalytics, OldStructure,
     Null, NoAnalyticsField, AnalyticsNotArray}

(***************************************************************************)
(* localStorage: the entry is missing, holds the JSON text of a value, or  *)
(* holds text that JSON.parse rejects.                                     *)
(***************************************************************************)
NoEntry == [type |-> "absent"]

CorruptText == [type |-> "corrupt"]

JSON_stringify(value) == [type |-> "json", value |-> value]

JSON_parse(text) == text.value

StoredTexts ==
    {NoEntry, CorruptText, JSON_stringify(Snapshot2), JSON_stringify(OldStructure),
     JSON_stringify(Null)}

(***************************************************************************)
(* The store operations.                                                   *)
(***************************************************************************)
\* any operation may start while a derivation is between two of its reads
RunToCompletion_preemptive == TRUE

\* The derivations are synchronous functions without await or callbacks (e.g.
\* lines 393-430, 485-510): once called they return before any other function
\* of the module starts, so an operation starts only with no derivation on
\* the stack.
RunToCompletion == frame = NoFrame

\* the payload is held and stored without the format test
setAnalyticsData_unchecked(apiResponse) ==
    /\ RunToCompletion
    /\ currentAnalyticsData' = apiResponse
    /\ \E stored \in BOOLEAN :
           localStorage' = IF stored THEN JSON_stringify(apiResponse) ELSE localStorage
    /\ ret' = [fn |-> "setAnalyticsData", arg |-> apiResponse]
    /\ UNCHANGED <<exports, callArgs, frame, inputPage>>

\* lines 66-79; setItem either stores the text or throws (the throw is caught)
setAnalyticsData(apiResponse) ==
    /\ RunToCompletion
    /\ IF IsValidPayload(apiResponse)
       THEN /\ currentAnalyticsData' = apiResponse
            /\ \E stored \in BOOLEAN :
                   localStorage' = IF stored THEN JSON_stringify(apiResponse) ELSE localStorage
       ELSE UNCHANGED <<currentAnalyticsData, localStorage>>
    /\ ret' = [fn |-> "setAnalyticsData", arg |-> apiResponse]
    /\ UNCHANGED <<exports, callArgs, frame, inputPage>>

\* lines 86-112; removeItem either removes the entry or throws
loadAnalyticsFromStorage ==
    /\ RunToCompletion
    /\ UNCHANGED <<exports, callArgs, frame, inputPage>>
    /\ IF localStorage = NoEntry
       THEN /\ UNCHANGED <<currentAnalyticsData, localStorage>>
            /\ ret' = [fn |-> "loadAnalyticsFromStorage", val |-> FALSE]
       ELSE IF localStorage = CorruptText
       THEN \* JSON.parse throws; the catch block removes the entry
            /\ UNCHANGED currentAnalyticsData
            /\ \E removed \in BOOLEAN :
                   IF removed
                   THEN /\ localStorage' = NoEntry
                        /\ ret' = [fn |-> "loadAnalyticsFromStorage", val |-> FALSE]
                   ELSE /\ UNCHANGED localStorage
                        /\ ret' = [fn |-> "loadAnalyticsFromStorage", threw |-> TRUE]
       ELSE LET parsed == JSON_parse(localStorage)
            IN  IF ~IsValidPayload(parsed)
                THEN /\ UNCHANGED <<currentAnalyticsData, localStorage>>
                     /\ ret' = [fn |-> "loadAnalyticsFromStorage", val |-> FALSE]
                ELSE IF /\ Len(parsed.analytics.items) > 0
                        /\ Has(parsed.analytics.items[1], "analytics")
                        /\ ~Has(parsed.analytics.items[1].analytics, "brands")
                THEN \* old structure: removeItem at line 97, again at line 109 when it throws
                     /\ UNCHANGED currentAnalyticsData
                     /\ \E removed \in BOOLEAN :
                            IF removed
                            THEN /\ localStorage' = NoEntry
                                 /\ ret' = [fn |-> "loadAnalyticsFromStorage", val |-> FALSE]
                            ELSE /\ UNCHANGED localStorage
                                 /\ ret' = [fn |-> "loadAnalyticsFromStorage", threw |-> TRUE]
                ELSE /\ currentAnalyticsData' = parsed
                     /\ UNCHANGED localStorage
                     /\ ret' = [fn |-> "loadAnalyticsFromStorage", val |-> TRUE]

\* lines 117-124
clearAnalyticsData ==
    /\ RunToCompletion
    /\ currentAnalyticsData' = Null
    /\ \E removed \in BOOLEAN : localStorage' = IF removed THEN NoEntry ELSE localStorage
    /\ ret' = [fn |-> "clearAnalyticsData"]
    /\ UNCHANGED <<exports, callArgs, frame, inputPage>>

(***************************************************************************)
(* The inputs of calculatePercentile: every population over PopValues up   *)
(* to MaxSmallPop members, and the populations of up to MaxPop members     *)
(* made of a block of 0s followed by a block of 2s.                        *)
(***************************************************************************)
PopValues == {0, 1, 2}

SmallPops == UNION {[1..n -> PopValues] : n \in 0..MaxSmallPop}

BlockPops ==
    UNION {{[i \in 1..n |-> IF i <= k THEN 0 ELSE 2] : k \in 0..n} : n \in 1..MaxPop}

Populations == SmallPops \cup BlockPops

ProbeValues == {0, 1, 2, 3}

(***************************************************************************)
(* Calls of the derivations: callArgs holds the arguments, ret the result. *)
(***************************************************************************)
Returns(fn, val) ==
    /\ ret' = [fn |-> fn, val |-> val]
    /\ UNCHANGED <<currentAnalyticsData, localStorage, exports, callArgs, frame, inputPage>>

Call_calculatePercentile ==
    Returns("calculatePercentile", calculatePercentile(callArgs.value, callArgs.allValues))

\* getTierFromPercentile(calculatePercentile(value, allValues)), as in the tier badges
Call_getTierFromPercentile ==
    LET percentile == calculatePercentile(callArgs.value, callArgs.allValues)
    IN  /\ ret' = [fn |-> "getTierFromPercentile", arg |-> percentile,
                   val |-> getTierFromPercentile(percentile)]
        /\ UNCHANGED <<currentAnalyticsData, localStorage, exports, callArgs, frame, inputPage>>

\* Array.prototype.sort orders its receiver in place and returns it.  An array
\* value carries the place it lives in: "brands" for the array the snapshot
\* holds, "fresh" for one a spread, map or filter has just created.
SnapshotBrands ==
    [alias |-> "brands",
     items |-> IF getAnalytics # Null /\ Has(getAnalytics, "brands")
               THEN getAnalytics.brands ELSE <<>>]

\* [...array]
Spread(array) == [alias |-> "fresh", items |-> array.items]

\* the snapshot once receiver.sort(...) has run with the given sort keys
SnapshotAfterSort(receiver, keys) ==
    IF receiver.alias = "fresh" \/ getAnalytics = Null \/ ~Has(getAnalytics, "brands")
    THEN currentAnalyticsData
    ELSE [currentAnalyticsData EXCEPT
             !.analytics.items[1].analytics.brands = SortDesc(receiver.items, keys)]

\* brands.sort(...): the snapshot's own array is the receiver
getAIVisibilityMetrics_sortReceiver_inPlace == SnapshotBrands

\* line 348: [...brands].sort(...)
getAIVisibilityMetrics_sortReceiver == Spread(SnapshotBrands)

Call_getAIVisibilityMetrics ==
    LET receiver == getAIVisibilityMetrics_sortReceiver
        keys     == [i \in 1..Len(receiver.items) |-> OrZero(receiver.items[i], "geo_score")]
    IN  /\ ret' = [fn |-> "getAIVisibilityMetrics", val |-> getAIVisibilityMetrics]
        /\ currentAnalyticsData' = SnapshotAfterSort(receiver, keys)
        /\ UNCHANGED <<localStorage, exports, callArgs, frame, inputPage>>

Call_getAIVisibilityMetrics_2 == Returns("getAIVisibilityMetrics_2", getAIVisibilityMetrics_2)

Call_getMentionsPosition == Returns("getMentionsPosition", getMentionsPosition)

Call_getBrandMentionResponseRates ==
    Returns("getBrandMentionResponseRates", getBrandMentionResponseRates)

Call_getBrandMentionResponseRates_2 ==
    Returns("getBrandMentionResponseRates_2", getBrandMentionResponseRates_2)

Call_getTotalPromptCount == Returns("getTotalPromptCount", getTotalPromptCount)

Call_getLlmData == Returns("getLlmData", getLlmData)

Call_getLlmData_2 == Returns("getLlmData_2", getLlmData_2)

Call_getBrandMentionPercentile == Returns("getBrandMentionPercentile", getBrandMentionPercentile)

Call_PromptsContent == Returns("PromptsContent", PromptsContent_totalPrompts)

Call_getCompetitorData == Returns("getCompetitorData", getCompetitorData)

Call_getRecommendations == Returns("getRecommendations", getRecommendations)

Call_getExecutiveSummary == Returns("getExecutiveSummary", getExecutiveSummary)

Call_getCompetitorSentiment == Returns("getCompetitorSentiment", getCompetitorSentiment)

Call_getAllBrandMentionsWithTiers ==
    Returns("getAllBrandMentionsWithTiers", getAllBrandMentionsWithTiers)

Call_hasAnalyticsData == Returns("hasAnalyticsData", hasAnalyticsData)

Call_getAnalytics == Returns("getAnalytics", getAnalytics)

Call_getBrandName == Returns("getBrandName", getBrandName)

Call_getBrandInfoWithLogos == Returns("getBrandInfoWithLogos", getBrandInfoWithLogos)

Call_getSearchKeywordsWithPrompts ==
    Returns("getSearchKeywordsWithPrompts", getSearchKeywordsWithPrompts)

Call_getAIVisibility == Returns("getAIVisibility", getAIVisibility)

Call_getBrandMentions == Returns("getBrandMentions", getBrandMentions)

Call_getPrimaryBrandTotalMentions ==
    Returns("getPrimaryBrandTotalMentions", getPrimaryBrandTotalMentions)

(***************************************************************************)
(* The exported constants are evaluated once, when the module is loaded    *)
(* and the snapshot is still null (lines 264, 613, 621, 636, 650).         *)
(***************************************************************************)
ModuleLoaded ==
    /\ competitorData = <<>>
    /\ llmData = <<>>
    /\ recommendations = <<>>
    /\ executiveSummary = DefaultExecutiveSummary
    /\ competitorSentiment = <<>>

(***************************************************************************)
(* Spec: the store.  The snapshot starts null; localStorage holds whatever *)
(* an earlier session left.                                                *)
(***************************************************************************)
Init ==
    /\ currentAnalyticsData = Null
    /\ localStorage \in StoredTexts
    /\ ModuleLoaded
    /\ callArgs = NoArgs
    /\ ret = NoCall
    /\ frame = NoFrame
    /\ inputPage = NotMounted

Next ==
    \/ \E apiResponse \in ApiResponses : setAnalyticsData(apiResponse)
    \/ loadAnalyticsFromStorage
    \/ clearAnalyticsData
    \/ Call_getCompetitorData
    \/ Call_getLlmData
    \/ Call_getRecommendations
    \/ Call_getExecutiveSummary
    \/ Call_getCompetitorSentiment
    \/ Call_getAllBrandMentionsWithTiers
    \/ Call_hasAnalyticsData
    \/ Call_getAnalytics
    \/ Call_getBrandName
    \/ Call_getBrandInfoWithLogos
    \/ Call_getSearchKeywordsWithPrompts
    \/ Call_getTotalPromptCount
    \/ Call_getBrandMentionPercentile
    \/ Call_getAIVisibilityMetrics
    \/ Call_getAIVisibilityMetrics_2

Spec == Init /\ [][Next]_vars

(***************************************************************************)
(* SpecFormulas: calculatePercentile on the populations above.             *)
(***************************************************************************)
InitFormulas ==
    /\ currentAnalyticsData = Null
    /\ localStorage = NoEntry
    /\ ModuleLoaded
    /\ callArgs \in {[value |-> v, allValues |-> pop] : v \in ProbeValues, pop \in Populations}
    /\ ret = NoCall
    /\ frame = NoFrame
    /\ inputPage = NotMounted

NextFormulas ==
    \/ Call_calculatePercentile
    \/ Call_getTierFromPercentile

SpecFormulas == InitFormulas /\ [][NextFormulas]_vars

(***************************************************************************)
(* SpecBrands: the position and response-rate derivations on a snapshot    *)
(* that setAnalyticsData has stored.                                       *)
(***************************************************************************)
InitBrands ==
    /\ currentAnalyticsData \in BrandSnapshots
    /\ localStorage = JSON_stringify(currentAnalyticsData)
    /\ ModuleLoaded
    /\ callArgs = NoArgs
    /\ ret = NoCall
    /\ frame = NoFrame
    /\ inputPage = NotMounted

NextBrands ==
    \/ Call_getAIVisibilityMetrics
    \/ Call_getAIVisibilityMetrics_2
    \/ Call_getMentionsPosition
    \/ Call_getBrandMentionResponseRates
    \/ Call_getBrandMentionResponseRates_2
    \/ Call_getAIVisibility
    \/ Call_getBrandMentions
    \/ Call_getPrimaryBrandTotalMentions
    \/ Call_getCompetitorData

SpecBrands == InitBrands /\ [][NextBrands]_vars

(***************************************************************************)
(* SpecLlm: the prompt totals and the rank-derived position breakdown.     *)
(***************************************************************************)
InitLlm ==
    /\ currentAnalyticsData \in LlmSnapshots
    /\ localStorage = JSON_stringify(currentAnalyticsData)
    /\ ModuleLoaded
    /\ callArgs = NoArgs
    /\ ret = NoCall
    /\ frame = NoFrame
    /\ inputPage = NotMounted

NextLlm ==
    \/ Call_getAIVisibilityMetrics
    \/ Call_getAIVisibilityMetrics_2
    \/ Call_getTotalPromptCount
    \/ Call_getLlmData
    \/ Call_getLlmData_2
    \/ Call_getBrandMentionPercentile
    \/ Call_PromptsContent

SpecLlm == InitLlm /\ [][NextLlm]_vars

(***************************************************************************)
(* Properties.                                                             *)
(***************************************************************************)
\* the number of members of a population strictly below value
LowerCount(value, pop) == Cardinality({i \in 1..Len(pop) : pop[i] < value})

\* C1: calculatePercentile(value, []) returns 0 for every value.
C1_EmptyPopulationGivesZero ==
    (ret.fn = "calculatePercentile" /\ callArgs.allValues = <<>>) => ret.val = 0

\* C2: for a non-empty population calculatePercentile returns
\* round(100 * (members strictly below value) / |population|), an integer of 0..100.
C2_PercentileIsRoundedShare ==
    (ret.fn = "calculatePercentile" /\ callArgs.allValues # <<>>) =>
        /\ ret.val \in 0..100
        /\ ret.val = ExactRoundPercent(LowerCount(callArgs.value, callArgs.allValues),
                                       Len(callArgs.allValues))

\* the brands array of the snapshot, as stored
RawBrands == IF getAnalytics # Null /\ Has(getAnalytics, "brands") THEN getAnalytics.brands ELSE <<>>

\* the index of the subject brand in the brands array, 0 when no record has its name
SubjectIdx == FirstIdx(BrandHits(RawBrands, getBrandName))

PositionCalls == {"getAIVisibilityMetrics", "getAIVisibilityMetrics_2", "getMentionsPosition"}

\* the position a position derivation has returned
ReportedPosition ==
    IF ret.fn = "getMentionsPosition" THEN ret.val.position ELSE ret.val.brandPosition

\* the score the returned derivation ranks the i-th brand by
RankedScore(i) ==
    IF ret.fn = "getMentionsPosition"
    THEN OrZero(RawBrands[i], "mention_score") ELSE OrZero(RawBrands[i], "geo_score")

\* C3: when no brand record has the subject's name, every position derivation
\* reports the number of brands as the position.
C3_AbsentSubjectRanksLast ==
    (ret.fn \in PositionCalls /\ SubjectIdx = 0) => ReportedPosition = Len(RawBrands)

\* C4: when the subject brand is present, its reported position is 1 + the number
\* of brands with a strictly higher score + the number of brands with an equal
\* score that come earlier in the brands array.
C4_PositionIsStableRank ==
    (ret.fn \in PositionCalls /\ SubjectIdx # 0) =>
        ReportedPosition =
            1 + Cardinality({i \in 1..Len(RawBrands) : RankedScore(i) > RankedScore(SubjectIdx)})
              + Cardinality({i \in 1..(SubjectIdx - 1) : RankedScore(i) = RankedScore(SubjectIdx)})

\* Acme 80, Beta 50, Gamma 50 with subject Gamma: getMentionsPosition has returned 3
C4_Witness ==
    /\ ret.fn = "getMentionsPosition"
    /\ Len(RawBrands) = 3
    /\ getBrandName = "Gamma"
    /\ [i \in 1..3 |-> RankedScore(i)] = <<80, 50, 50>>
    /\ ret.val.position = 3

RateCalls == {"getBrandMentionResponseRates", "getBrandMentionResponseRates_2"}

\* C5: every row returned by getBrandMentionResponseRates has responseRate <= 100.
C5_RatesAtMostHundred ==
    ret.fn \in RateCalls => \A i \in 1..Len(ret.val) : ret.val[i].responseRate <= 100

\* C6: the rows returned by getBrandMentionResponseRates are in non-increasing
\* order of responseRate, the subject's row included.
C6_RowsSortedByRate ==
    ret.fn \in RateCalls =>
        \A i \in 1..(Len(ret.val) - 1) : ret.val[i].responseRate >= ret.val[i + 1].responseRate

\* the indices of the brands other than the subject
Competitors == {i \in 1..Len(RawBrands) : RawBrands[i].brand # getBrandName}

\* the indices of the brands that have a row in the returned list
Listed == {i \in 1..Len(RawBrands) : \E k \in 1..Len(ret.val) : ret.val[k].brand = RawBrands[i].brand}

\* C7: getBrandMentionResponseRates returns at most three rows: the two brands
\* other than the subject with the highest mention_score (fewer when fewer exist)
\* and the subject's row whenever the subject is among the brands.
C7_TopTwoPlusSubject ==
    ret.fn \in RateCalls =>
        /\ Len(ret.val) <= 3
        /\ Len(ret.val) = Cardinality(Listed)
        /\ \A k \in 1..Len(ret.val) : \E i \in 1..Len(RawBrands) : ret.val[k].brand = RawBrands[i].brand
        /\ (SubjectIdx # 0) <=> (SubjectIdx \in Listed)
        /\ Cardinality(Listed \cap Competitors) = Min(2, Cardinality(Competitors))
        /\ \A i \in Listed \cap Competitors : \A j \in Competitors \ Listed :
               OrZero(RawBrands[i], "mention_score") >= OrZero(RawBrands[j], "mention_score")

\* the queries_with_brand of the models whose average rank satisfies inBucket
BucketCount(inBucket(_)) ==
    SumSeq([i \in 1..Len(LlmEntries) |->
               IF inBucket(AvgRank(LlmEntries[i]))
               THEN OrZero(LlmEntries[i], "queries_with_brand") ELSE 0])

IsTopRank(rank) == rank <= 1

IsMidRank(rank) == rank > 1 /\ rank <= 4

IsLowRank(rank) == rank > 4

IsAnyRank(rank) == TRUE

\* C8: in the rank-derived breakdown every model's queries_with_brand is added to
\* exactly one bucket (rank <= 1 top, 1 < rank <= 4 mid, otherwise low) and each
\* percentage is round(100 * bucket / total queries_with_brand).
C8_BreakdownByRank ==
    (ret.fn = "getAIVisibilityMetrics_2" /\ BucketCount(IsAnyRank) > 0) =>
        LET total == BucketCount(IsAnyRank)
        IN  /\ ret.val.positionBreakdown.topPosition = ExactRoundPercent(BucketCount(IsTopRank), total)
            /\ ret.val.positionBreakdown.midPosition = ExactRoundPercent(BucketCount(IsMidRank), total)
            /\ ret.val.positionBreakdown.lowPosition = ExactRoundPercent(BucketCount(IsLowRank), total)

\* C9: after any sequence of setAnalyticsData / loadAnalyticsFromStorage /
\* clearAnalyticsData every exposed derived value, the exported competitorData,
\* llmData, recommendations, executiveSummary and competitorSentiment included,
\* equals its derivation from the snapshot currently held.
C9_NothingCached ==
    /\ competitorData = getCompetitorData
    /\ llmData = getLlmData
    /\ recommendations = getRecommendations
    /\ executiveSummary = getExecutiveSummary
    /\ competitorSentiment = getCompetitorSentiment
    /\ ret.fn = "getCompetitorData" => ret.val = getCompetitorData
    /\ ret.fn = "getLlmData" => ret.val = getLlmData
    /\ ret.fn = "getRecommendations" => ret.val = getRecommendations
    /\ ret.fn = "getExecutiveSummary" => ret.val = getExecutiveSummary
    /\ ret.fn = "getCompetitorSentiment" => ret.val = getCompetitorSentiment

\* C10: getTotalPromptCount, the prompts field getLlmData reports per model and
\* the total of PromptsContent are all the sum of prompts.length over the keywords.
C10_OnePromptTotal ==
    LET total == SumSeq([i \in 1..Len(getSearchKeywordsWithPrompts) |->
                            Len(getSearchKeywordsWithPrompts[i].prompts)])
    IN  /\ ret.fn = "getTotalPromptCount" => ret.val = total
        /\ ret.fn = "PromptsContent" => ret.val = total
        /\ ret.fn \in {"getLlmData", "getLlmData_2"} =>
               \A i \in 1..Len(ret.val) : ret.val[i].prompts = total

(***************************************************************************)
(* formulas.ts: calculateBrandMentionScore.  The mentionBreakdown argument *)
(* is Null or an object holding its entries.                               *)
(***************************************************************************)
Obj(entries) == [type |-> "object", entries |-> entries]

\* Math.min, NaN when an argument is NaN
MathMin(a, b) == IF a = NaN \/ b = NaN THEN NaN ELSE Min(a, b)

\* the guard lets totalPrompts = 0 through
calculateBrandMentionScore_zeroTotal(mentionBreakdown, totalPrompts) ==
    IF mentionBreakdown = Null \/ totalPrompts < 0 THEN 0
    ELSE LET totalMentions ==
                 SumSeq([i \in 1..Len(mentionBreakdown.entries) |->
                            mentionBreakdown.entries[i].count])
         IN  MathMin(RoundPercent(totalMentions, totalPrompts), 100)

calculateBrandMentionScore(mentionBreakdown, totalPrompts) ==
    IF mentionBreakdown = Null \/ totalPrompts <= 0 THEN 0
    ELSE LET totalMentions ==
                 SumSeq([i \in 1..Len(mentionBreakdown.entries) |->
                            mentionBreakdown.entries[i].count])
         IN  MathMin(RoundPercent(totalMentions, totalPrompts), 100)

MaxBreakdownKeys == 2     \* most keys of a mentionBreakdown argument

BreakdownKeyAt(i) == "k" \o ToString(i)

BreakdownCounts == {0, 2, 3, 20, 23}

RECURSIVE BreakdownsOfLen(_)
BreakdownsOfLen(n) ==
    IF n = 0 THEN {<<>>}
    ELSE {Append(es, [id |-> BreakdownKeyAt(n), count |-> c]) :
             es \in BreakdownsOfLen(n - 1), c \in BreakdownCounts}

BreakdownArgs == {Null} \cup {Obj(es) : es \in UNION {BreakdownsOfLen(n) : n \in 0..MaxBreakdownKeys}}

TotalPromptsArgs == {-1, 0, 5, 10, 40}

Call_calculateBrandMentionScore ==
    Returns("calculateBrandMentionScore",
            calculateBrandMentionScore(callArgs.mentionBreakdown, callArgs.totalPrompts))

(***************************************************************************)
(* SpecScore: calculateBrandMentionScore on the arguments above.           *)
(***************************************************************************)
InitScore ==
    /\ currentAnalyticsData = Null
    /\ localStorage = NoEntry
    /\ ModuleLoaded
    /\ callArgs \in {[mentionBreakdown |-> b, totalPrompts |-> t] :
                        b \in BreakdownArgs, t \in TotalPromptsArgs}
    /\ ret = NoCall
    /\ frame = NoFrame
    /\ inputPage = NotMounted

NextScore == Call_calculateBrandMentionScore

SpecScore == InitScore /\ [][NextScore]_vars

\* the sum of the counts of the mentionBreakdown argument
ArgMentions ==
    SumSeq([i \in 1..Len(callArgs.mentionBreakdown.entries) |->
               callArgs.mentionBreakdown.entries[i].count])

\* C12: for a non-null breakdown and totalPrompts > 0 calculateBrandMentionScore
\* returns min(100, round(100 * sum of the breakdown values / totalPrompts)),
\* an integer of 0..100.
C12_ScoreIsCappedRoundedShare ==
    (/\ ret.fn = "calculateBrandMentionScore"
     /\ callArgs.mentionBreakdown # Null
     /\ callArgs.totalPrompts > 0) =>
        /\ ret.val \in 0..100
        /\ ret.val = Min(100, ExactRoundPercent(ArgMentions, callArgs.totalPrompts))

\* C13: calculateBrandMentionScore returns 0 whenever the breakdown is null or
\* totalPrompts <= 0, whatever the other argument.
C13_ScoreZeroWithoutData ==
    (/\ ret.fn = "calculateBrandMentionScore"
     /\ (callArgs.mentionBreakdown = Null \/ callArgs.totalPrompts <= 0)) => ret.val = 0

\* {k1: 20, k2: 3} over 0 prompts has returned 0
C13_Witness ==
    /\ ret.fn = "calculateBrandMentionScore"
    /\ callArgs.totalPrompts = 0
    /\ callArgs.mentionBreakdown # Null
    /\ ArgMentions = 23
    /\ ret.val = 0

\* C14: getTierFromPercentile maps percentile >= 70 to High, 40 <= percentile < 70
\* to Medium and percentile < 40 to Low; composed with calculatePercentile over any
\* population (the empty one included) the result is one of the three tiers.
C14_TierThresholds ==
    ret.fn = "getTierFromPercentile" =>
        /\ ret.val \in {"High", "Medium", "Low"}
        /\ ret.arg # NaN =>
               /\ (ret.arg >= 70) <=> (ret.val = "High")
               /\ (ret.arg >= 40 /\ ret.arg < 70) <=> (ret.val = "Medium")
               /\ (ret.arg < 40) <=> (ret.val = "Low")

\* a population that puts the value at percentile 70 has been given the tier High
C14_Witness ==
    /\ ret.fn = "getTierFromPercentile"
    /\ ret.arg = 70
    /\ ret.val = "High"

(***************************************************************************)
(* SpecBreakdown: the consumers of mention_breakdown on snapshots whose     *)
(* breakdowns may lack keywords and may hold keys that are no keyword.     *)
(***************************************************************************)
\* the value of a breakdown key: missing, or a count
KeyCounts == {<<>>, <<1>>, <<5>>}

\* a breakdown over the keywords k1, k2 and the key kx, which is no keyword
SnapshotBreakdowns ==
    {(IF Len(c1) = 0 THEN <<>> ELSE <<[id |-> "k1", count |-> c1[1]]>>)
       \o (IF Len(cx) = 0 THEN <<>> ELSE <<[id |-> "kx", count |-> cx[1]]>>)
       \o (IF Len(c2) = 0 THEN <<>> ELSE <<[id |-> "k2", count |-> c2[1]]>>) :
        c1 \in KeyCounts, cx \in KeyCounts, c2 \in KeyCounts}

BreakdownBrands(name) ==
    {WithOpt([brand |-> name, geo_score |-> 10], "mention_breakdown", b) :
        b \in {<<>>} \cup {<<es>> : es \in SnapshotBreakdowns}}

BreakdownSnapshots ==
    {Payload([brand_name |-> "Acme", brands |-> <<a, b>>, search_keywords |-> k]) :
        a \in BreakdownBrands("Acme"), b \in BreakdownBrands("Beta"),
        k \in {Keywords1, Keywords2}}

\* calculateBrandMentionScore for the i-th brand: its mention_breakdown over the
\* total number of prompts of all keywords (formulas.ts:67-68)
Call_calculateBrandMentionScore_forBrand(i) ==
    LET b    == getBrandInfoWithLogos[i]
        args == [mentionBreakdown |-> IF Has(b, "mention_breakdown")
                                      THEN Obj(b.mention_breakdown) ELSE Null,
                 totalPrompts     |-> getTotalPromptCount]
    IN  /\ callArgs' = args
        /\ ret' = [fn  |-> "calculateBrandMentionScore",
                   val |-> calculateBrandMentionScore(args.mentionBreakdown, args.totalPrompts)]
        /\ UNCHANGED <<currentAnalyticsData, localStorage, exports, frame, inputPage>>

InitBreakdown ==
    /\ currentAnalyticsData \in BreakdownSnapshots
    /\ localStorage = JSON_stringify(currentAnalyticsData)
    /\ ModuleLoaded
    /\ callArgs = NoArgs
    /\ ret = NoCall
    /\ frame = NoFrame
    /\ inputPage = NotMounted

NextBreakdown ==
    \/ \E i \in 1..Len(getBrandInfoWithLogos) : Call_calculateBrandMentionScore_forBrand(i)
    \/ Call_getBrandMentionPercentile
    \/ Call_getCompetitorData

SpecBreakdown == InitBreakdown /\ [][NextBreakdown]_vars

\* the ids of the keywords of the snapshot
KeywordIds ==
    {getSearchKeywordsWithPrompts[k].id : k \in 1..Len(getSearchKeywordsWithPrompts)}

\* the entries of a breakdown whose key is a keyword
KnownEntries(entries) ==
    LET IsKnown(e) == e.id \in KeywordIds IN SelectSeq(entries, IsKnown)

\* the sum of a brand's breakdown over the keywords, a missing keyword counting 0
KnownTotal(b) ==
    SumSeq([k \in 1..Len(getSearchKeywordsWithPrompts) |->
               BreakdownAt(b, getSearchKeywordsWithPrompts[k].id)])

\* getBrandMentionPercentile with the breakdowns restricted to the keywords
PercentileOverKeywords ==
    LET info == getBrandInfoWithLogos
        totalPrompts == getTotalPromptCount
    IN  IF totalPrompts = 0 \/ Len(info) = 0 THEN 0
        ELSE LET rate(i)   == FloatMul(FloatDiv(KnownTotal(info[i]), totalPrompts), 100)
                 hits      == BrandHits(info, getBrandName)
                 brandRate == IF hits = {} THEN [kind |-> "zero"] ELSE rate(FirstIdx(hits))
             IN  RoundPercent(Cardinality({i \in 1..Len(info) : FloatLess(rate(i), brandRate)}),
                              Len(info))

\* C11: keys of mention_breakdown that are no keyword change no derived value
\* (calculateBrandMentionScore, getBrandMentionPercentile, the per-keyword scores
\* of getCompetitorData), and a keyword missing from mention_breakdown counts 0.
C11_UnknownKeysIgnored ==
    /\ (ret.fn = "calculateBrandMentionScore" /\ callArgs.mentionBreakdown # Null) =>
           ret.val = calculateBrandMentionScore(
                         Obj(KnownEntries(callArgs.mentionBreakdown.entries)),
                         callArgs.totalPrompts)
    /\ ret.fn = "getBrandMentionPercentile" => ret.val = PercentileOverKeywords
    /\ ret.fn = "getCompetitorData" =>
           \A r \in 1..Len(ret.val) : \A i \in 1..Len(RawBrands) :
               RawBrands[i].brand = ret.val[r].name =>
                   ret.val[r].keywordScores =
                       [k \in 1..Len(getSearchKeywordsWithPrompts) |->
                           BreakdownAt(RawBrands[i], getSearchKeywordsWithPrompts[k].id)]

\* no snapshot is held: the holder is null, or its analytics array is empty, or
\* the first entry of the array has no inner analytics object
NoSnapshotHeld ==
    \/ currentAnalyticsData = Null
    \/ Len(currentAnalyticsData.analytics.items) = 0
    \/ ~Has(currentAnalyticsData.analytics.items[1], "analytics")

ListGetters ==
    {"getBrandInfoWithLogos", "getSearchKeywordsWithPrompts", "getCompetitorData",
     "getLlmData", "getRecommendations", "getCompetitorSentiment",
     "getAllBrandMentionsWithTiers"}

\* C15: with no snapshot held every derivation returns its zero/empty default:
\* getAnalytics null, getBrandName '', list getters [], getTotalPromptCount 0,
\* getBrandMentionPercentile 0, getAIVisibilityMetrics score 0 / tier 'Low' / all
\* three buckets 0, hasAnalyticsData false.
C15_DefaultsWithoutSnapshot ==
    NoSnapshotHeld =>
        /\ ret.fn = "getAnalytics" => ret.val = Null
        /\ ret.fn = "getBrandName" => ret.val = ""
        /\ ret.fn \in ListGetters => ret.val = <<>>
        /\ ret.fn \in {"getTotalPromptCount", "getBrandMentionPercentile"} => ret.val = 0
        /\ ret.fn \in {"getAIVisibilityMetrics", "getAIVisibilityMetrics_2"} =>
               /\ ret.val.score = 0
               /\ ret.val.tier = "Low"
               /\ ret.val.positionBreakdown =
                      [topPosition |-> 0, midPosition |-> 0, lowPosition |-> 0]
        /\ ret.fn = "getExecutiveSummary" => ret.val = DefaultExecutiveSummary
        /\ ret.fn = "hasAnalyticsData" => ret.val = FALSE

\* a payload with an empty analytics array is held and hasAnalyticsData has returned false
C15_Witness ==
    /\ currentAnalyticsData = EmptyAnalytics
    /\ ret.fn = "hasAnalyticsData"
    /\ ret.val = FALSE

\* C16: if no brand record matches brand_name, every brand-scoped derivation
\* returns its zero / 'Low' default: getAIVisibility, getBrandMentions,
\* getMentionsPosition (tier, brandMentions), getAIVisibilityMetrics (score, tier),
\* getPrimaryBrandTotalMentions.
C16_DefaultsWithoutSubject ==
    SubjectIdx = 0 =>
        /\ ret.fn = "getAIVisibility" => ret.val = [geo_score |-> 0, brand_tier |-> "Low"]
        /\ ret.fn = "getBrandMentions" =>
               ret.val = [mention_count |-> 0, mention_score |-> 0, mention_tier |-> "Low"]
        /\ ret.fn = "getMentionsPosition" => ret.val.tier = "Low" /\ ret.val.brandMentions = 0
        /\ ret.fn \in {"getAIVisibilityMetrics", "getAIVisibilityMetrics_2"} =>
               ret.val.score = 0 /\ ret.val.tier = "Low"
        /\ ret.fn = "getPrimaryBrandTotalMentions" => ret.val = 0

\* the subject is 'Z', the brands score 80 and 50, and getMentionsPosition has
\* returned tier 'Low' and brandMentions 0
C16_Witness ==
    /\ ret.fn = "getMentionsPosition"
    /\ getBrandName = "Z"
    /\ Len(RawBrands) = 2
    /\ [i \in 1..2 |-> OrZero(RawBrands[i], "mention_score")] = <<80, 50>>
    /\ ret.val.tier = "Low"
    /\ ret.val.brandMentions = 0

\* the sum of the t1, t2 and t3 counters of gemini and openai
TierCounterTotal ==
    SumSeq([i \in 1..3 |-> LlmField(LlmEntries, "gemini", <<"t1", "t2", "t3">>[i])
                           + LlmField(LlmEntries, "openai", <<"t1", "t2", "t3">>[i])])

NoPositions == [topPosition |-> 0, midPosition |-> 0, lowPosition |-> 0]

\* C19: when the total of queries_with_brand (or of the tier counters) over all
\* models is zero, the position breakdown is 0 for all three buckets; no bucket
\* is ever NaN.
C19_ZeroTotalGivesZeroBuckets ==
    /\ (ret.fn = "getAIVisibilityMetrics_2" /\ BucketCount(IsAnyRank) = 0) =>
           ret.val.positionBreakdown = NoPositions
    /\ (ret.fn = "getAIVisibilityMetrics" /\ TierCounterTotal = 0) =>
           ret.val.positionBreakdown = NoPositions
    /\ ret.fn \in {"getAIVisibilityMetrics", "getAIVisibilityMetrics_2"} =>
           /\ ret.val.positionBreakdown.topPosition \in 0..100
           /\ ret.val.positionBreakdown.midPosition \in 0..100
           /\ ret.val.positionBreakdown.lowPosition \in 0..100

\* two models with a rank but without queries_with_brand: the second definition
\* has returned 0 for the three buckets
C19_Witness ==
    /\ ret.fn = "getAIVisibilityMetrics_2"
    /\ Len(LlmEntries) = 2
    /\ \A i \in 1..2 : AvgRank(LlmEntries[i]) > 0
    /\ BucketCount(IsAnyRank) = 0
    /\ ret.val.positionBreakdown = NoPositions

(***************************************************************************)
(* PromptsContent (part_000) and SourcesAllContent (part_001): the scans   *)
(* for the top competitor of a keyword and of a source.                    *)
(***************************************************************************)
NoCompetitor == [brand |-> "", score |-> 0, logo |-> ""]

\* a brand whose score equals the top score replaces the top brand
getTopCompetitorForKeyword_lastWins(top, b, keywordId) ==
    LET score == BreakdownAt(b, keywordId)
    IN  IF score >= top.score THEN [brand |-> b.brand, score |-> score, logo |-> b.logo]
        ELSE top

\* the forEach callback of part_000:35-42
getTopCompetitorForKeyword_step(top, b, keywordId) ==
    LET score == BreakdownAt(b, keywordId)
    IN  IF score > top.score THEN [brand |-> b.brand, score |-> score, logo |-> b.logo]
        ELSE top

RECURSIVE ScanBrands(_, _, _, _)
ScanBrands(brandInfo, keywordId, i, top) ==
    IF i > Len(brandInfo) THEN top
    ELSE ScanBrands(brandInfo, keywordId, i + 1,
                    getTopCompetitorForKeyword_step(top, brandInfo[i], keywordId))

getTopCompetitorForKeyword(keywordId) ==
    ScanBrands(getBrandInfoWithLogos, keywordId, 1, NoCompetitor)

\* part_001:62-65, followed by the "|| ''" of line 77
SourcesAllContent_getBrandLogo(name) ==
    LET hits == BrandHits(getBrandInfoWithLogos, name)
    IN  IF hits = {} THEN "" ELSE getBrandInfoWithLogos[FirstIdx(hits)].logo

\* the forEach callback of part_001:73-79; an entry without count never wins
getTopCompetitorForSource_step(top, entry) ==
    IF Has(entry, "count") /\ entry.count > top.score
    THEN [brand |-> entry.id, score |-> entry.count,
          logo |-> SourcesAllContent_getBrandLogo(entry.id)]
    ELSE top

RECURSIVE ScanMentions(_, _, _)
ScanMentions(mentions, i, top) ==
    IF i > Len(mentions) THEN top
    ELSE ScanMentions(mentions, i + 1, getTopCompetitorForSource_step(top, mentions[i]))

\* returns { brand, count, logo }
getTopCompetitorForSource(mentions) ==
    LET top == ScanMentions(mentions, 1, NoCompetitor)
    IN  [brand |-> top.brand, count |-> top.score, logo |-> top.logo]

\* sourcesData of part_001:28-51: the mentions of each source, {} when missing
SourcesAllContent_sourcesData ==
    IF getAnalytics = Null \/ ~Has(getAnalytics, "sources_and_content_impact") THEN <<>>
    ELSE LET srcs == getAnalytics.sources_and_content_impact
         IN  [i \in 1..Len(srcs) |->
                 [name     |-> srcs[i].id,
                  mentions |-> IF Has(srcs[i], "mentions") THEN srcs[i].mentions ELSE <<>>]]

MaxMentions == 3     \* most entries of a source's mentions map

\* the brand of the i-th entry of a mentions map, in insertion order
MentionBrandAt(i) == IF i <= 3 THEN <<"Beta", "Other", "Acme">>[i] ELSE "Brand" \o ToString(i)

RECURSIVE MentionsOfLen(_)
MentionsOfLen(n) ==
    IF n = 0 THEN {<<>>}
    ELSE {Append(ms, WithOpt([id |-> MentionBrandAt(n)], "count", c)) :
             ms \in MentionsOfLen(n - 1), c \in {<<>>, <<0>>, <<1>>, <<2>>}}

SourceMaps ==
    {<<[id |-> "reddit.com"]>>}
        \cup {<<[id |-> "reddit.com", mentions |-> ms]>> :
                 ms \in UNION {MentionsOfLen(n) : n \in 0..MaxMentions}}

ScanBreakdowns == {<<>>, <<<<[id |-> "k1", count |-> 0]>>>>, <<<<[id |-> "k1", count |-> 1]>>>>,
                   <<<<[id |-> "k1", count |-> 2]>>>>, <<<<[id |-> "k2", count |-> 2]>>>>}

ScanSnapshots ==
    {Payload([brand_name |-> "Acme",
              brands |-> <<WithOpt([brand |-> "Acme", logo |-> "https://cdn.example/acme.png"],
                                   "mention_breakdown", a),
                           WithOpt([brand |-> "Beta", logo |-> "www.beta.com/about"],
                                   "mention_breakdown", b),
                           WithOpt([brand |-> "Gamma"], "mention_breakdown", g)>>,
              search_keywords |-> Keywords2,
              sources_and_content_impact |-> srcs]) :
        a \in ScanBreakdowns, b \in ScanBreakdowns, g \in ScanBreakdowns, srcs \in SourceMaps}

Call_getTopCompetitorForKeyword(keywordId) ==
    /\ callArgs' = [keywordId |-> keywordId]
    /\ ret' = [fn |-> "getTopCompetitorForKeyword", val |-> getTopCompetitorForKeyword(keywordId)]
    /\ UNCHANGED <<currentAnalyticsData, localStorage, exports, frame, inputPage>>

Call_getTopCompetitorForSource(mentions) ==
    /\ callArgs' = [mentions |-> mentions]
    /\ ret' = [fn |-> "getTopCompetitorForSource", val |-> getTopCompetitorForSource(mentions)]
    /\ UNCHANGED <<currentAnalyticsData, localStorage, exports, frame, inputPage>>

(***************************************************************************)
(* SpecScans: the two scans as the components call them (part_000:85,      *)
(* part_001:118).                                                          *)
(***************************************************************************)
InitScans ==
    /\ currentAnalyticsData \in ScanSnapshots
    /\ localStorage = JSON_stringify(currentAnalyticsData)
    /\ ModuleLoaded
    /\ callArgs = NoArgs
    /\ ret = NoCall
    /\ frame = NoFrame
    /\ inputPage = NotMounted

NextScans ==
    \/ \E k \in 1..Len(getSearchKeywordsWithPrompts) :
           Call_getTopCompetitorForKeyword(getSearchKeywordsWithPrompts[k].id)
    \/ \E i \in 1..Len(SourcesAllContent_sourcesData) :
           Call_getTopCompetitorForSource(SourcesAllContent_sourcesData[i].mentions)

SpecScans == InitScans /\ [][NextScans]_vars

\* the first index of values holding the maximum, 0 when no value is positive
FirstMaxIdx(values) ==
    LET best == {i \in 1..Len(values) :
                    values[i] > 0 /\ \A j \in 1..Len(values) : values[j] <= values[i]}
    IN  FirstIdx(best)

\* C20: the top-competitor scans return the first-encountered entry holding the
\* maximum value, and the empty sentinel (brand '', value 0, logo '') when no
\* entry has a positive value.
C20_FirstMaximumWins ==
    /\ ret.fn = "getTopCompetitorForKeyword" =>
           LET info   == getBrandInfoWithLogos
               scores == [i \in 1..Len(info) |-> BreakdownAt(info[i], callArgs.keywordId)]
               first  == FirstMaxIdx(scores)
           IN  IF first = 0 THEN ret.val = [brand |-> "", score |-> 0, logo |-> ""]
               ELSE ret.val = [brand |-> info[first].brand, score |-> scores[first],
                               logo |-> info[first].logo]
    /\ ret.fn = "getTopCompetitorForSource" =>
           LET counts == [i \in 1..Len(callArgs.mentions) |-> OrZero(callArgs.mentions[i], "count")]
               first  == FirstMaxIdx(counts)
           IN  IF first = 0 THEN ret.val = [brand |-> "", count |-> 0, logo |-> ""]
               ELSE /\ ret.val.brand = callArgs.mentions[first].id
                    /\ ret.val.count = counts[first]

\* Acme and Beta both hold 2 for k1, Gamma less: the scan has returned Acme
C20_Witness ==
    /\ ret.fn = "getTopCompetitorForKeyword"
    /\ callArgs.keywordId = "k1"
    /\ [i \in 1..3 |-> BreakdownAt(RawBrands[i], "k1")] = <<2, 2, 1>>
    /\ ret.val.brand = "Acme"
    /\ ret.val.score = 2

\* the derivations SpecBrands calls
BrandDerivations ==
    {"getAIVisibilityMetrics", "getAIVisibilityMetrics_2", "getMentionsPosition",
     "getBrandMentionResponseRates", "getBrandMentionResponseRates_2", "getAIVisibility",
     "getBrandMentions", "getPrimaryBrandTotalMentions", "getCompetitorData"}

ReadSequence(fn) ==
    CASE fn = "getMentionsPosition"       -> <<"brand_name", "brands">>
      [] fn = "getBrandMentionPercentile" -> <<"brand_name", "brands", "search_keywords">>
      [] fn = "getLlmData"                -> <<"llm_wise_data", "search_keywords">>

Readers == {"getMentionsPosition", "getBrandMentionPercentile", "getLlmData"}

\* the value the derivation returns once its reads are done
ReaderResult(fn) ==
    CASE fn = "getMentionsPosition"       -> [position |-> getMentionsPosition]
      [] fn = "getBrandMentionPercentile" -> [percentile |-> getBrandMentionPercentile]
      [] fn = "getLlmData"                -> [rows |-> getLlmData]

\* the derivation is called
Reader_begin(fn) ==
    /\ RunToCompletion
    /\ frame' = [fn |-> fn, pc |-> 1, seen |-> <<>>]
    /\ UNCHANGED <<currentAnalyticsData, localStorage, exports, callArgs, ret, inputPage>>

\* its next getAnalytics() call (lines 132-152) reads the holder
Reader_read ==
    /\ frame.fn \in Readers
    /\ frame.pc <= Len(ReadSequence(frame.fn))
    /\ frame' = [frame EXCEPT
                    !.pc = @ + 1,
                    !.seen = Append(@, [field    |-> ReadSequence(frame.fn)[frame.pc],
                                        snapshot |-> currentAnalyticsData])]
    /\ UNCHANGED <<currentAnalyticsData, localStorage, exports, callArgs, ret, inputPage>>

\* it returns
Reader_return ==
    /\ frame.fn \in Readers
    /\ frame.pc > Len(ReadSequence(frame.fn))
    /\ ret' = [fn |-> frame.fn, val |-> ReaderResult(frame.fn), reads |-> frame.seen]
    /\ frame' = NoFrame
    /\ UNCHANGED <<currentAnalyticsData, localStorage, exports, callArgs, inputPage>>

InitReaders ==
    /\ currentAnalyticsData = Null
    /\ localStorage \in StoredTexts
    /\ ModuleLoaded
    /\ callArgs = NoArgs
    /\ ret = NoCall
    /\ frame = NoFrame
    /\ inputPage = NotMounted

NextReaders ==
    \/ \E apiResponse \in ApiResponses : setAnalyticsData(apiResponse)
    \/ loadAnalyticsFromStorage
    \/ clearAnalyticsData
    \/ \E fn \in Readers : Reader_begin(fn)
    \/ Reader_read
    \/ Reader_return

SpecReaders == InitReaders /\ [][NextReaders]_vars

\* all reads of one call saw the same snapshot
Untorn(seen) == \A i, j \in 1..Len(seen) : seen[i].snapshot = seen[j].snapshot

\* C17: a derivation never observes a torn snapshot: in every interleaving of
\* setAnalyticsData / loadAnalyticsFromStorage / clearAnalyticsData with
\* derivation calls, the fields one call reads (brand_name, brands,
\* search_keywords, llm_wise_data) all come from one snapshot version, while
\* the call runs and when it has returned.
C17_NoTornSnapshot ==
    /\ Untorn(frame.seen)
    /\ Has(ret, "reads") => Untorn(ret.reads)

\* getBrandMentionPercentile has returned after its three reads, on a snapshot
\* that a store operation installed and whose stored entry differs from it
C17_Witness ==
    /\ ret.fn = "getBrandMentionPercentile"
    /\ Len(ret.reads) = 3
    /\ {ret.reads[i].field : i \in 1..3} = {"brand_name", "brands", "search_keywords"}
    /\ ret.reads[1].snapshot # Null
    /\ ret.reads[3].snapshot = currentAnalyticsData
    /\ localStorage # JSON_stringify(currentAnalyticsData)

\* the fields both getAIVisibilityMetrics definitions return
SharedMetrics(m) ==
    [positionBreakdown |-> m.positionBreakdown, score |-> m.score, tier |-> m.tier,
     totalBrands |-> m.totalBrands, brandPosition |-> m.brandPosition]

\* C21: the two getAIVisibilityMetrics definitions (pre-aggregated t1/t2/t3
\* counters, rank-derived counters) return the same positionBreakdown, score,
\* tier, totalBrands and brandPosition on every snapshot.
C21_OneBreakdownAlgorithm ==
    ret.fn \in {"getAIVisibilityMetrics", "getAIVisibilityMetrics_2"} =>
        SharedMetrics(getAIVisibilityMetrics) = SharedMetrics(getAIVisibilityMetrics_2)

\* the payloads the store can hold: those setAnalyticsData accepts, and the
\* stored texts loadAnalyticsFromStorage parses and accepts
WholePayloads ==
    {p \in ApiResponses : p # Null /\ Has(p, "analytics") /\ p.analytics.isArray}
        \cup {JSON_parse(t) : t \in {x \in StoredTexts : x.type = "json" /\ x.value # Null}}

\* C22: the held snapshot only changes wholesale: currentAnalyticsData is null
\* or one whole payload that setAnalyticsData accepted or
\* loadAnalyticsFromStorage parsed, and after clearAnalyticsData it is null,
\* hasAnalyticsData() is false and the persisted entry is removed.
C22_WholesaleSnapshot ==
    /\ currentAnalyticsData = Null \/ currentAnalyticsData \in WholePayloads
    /\ ret.fn = "clearAnalyticsData" =>
           /\ currentAnalyticsData = Null
           /\ ~hasAnalyticsData
           /\ localStorage = NoEntry

\* C27: whenever the in-memory snapshot and the persisted entry are both
\* present they hold the same payload, also in runs in which a localStorage
\* write or removal throws.
C27_SnapshotMatchesStorage ==
    (currentAnalyticsData # Null /\ localStorage # NoEntry) =>
        localStorage = JSON_stringify(currentAnalyticsData)

\* C28: persistence round-trips: with a payload that setAnalyticsData accepts
\* in storage and no snapshot held (a fresh session), loadAnalyticsFromStorage
\* returns true and leaves the held snapshot equal to that payload.
C28_StoredPayloadLoads ==
    [][(/\ ret'.fn = "loadAnalyticsFromStorage"
        /\ currentAnalyticsData = Null
        /\ localStorage.type = "json"
        /\ localStorage.value # Null
        /\ Has(localStorage.value, "analytics")
        /\ localStorage.value.analytics.isArray)
       => /\ Has(ret', "val")
          /\ ret'.val = TRUE
          /\ currentAnalyticsData' = localStorage.value]_vars

\* C29: setAnalyticsData with an invalid payload (null, no analytics field,
\* analytics not an array) changes nothing: the held snapshot and the
\* persisted entry are the same as before the call.
C29_InvalidPayloadIgnored ==
    [][(/\ ret'.fn = "setAnalyticsData"
        /\ \/ ret'.arg = Null
           \/ ~Has(ret'.arg, "analytics")
           \/ ~ret'.arg.analytics.isArray)
       => /\ currentAnalyticsData' = currentAnalyticsData
          /\ localStorage' = localStorage]_vars

\* an array-less payload has been offered while Snapshot1 was held and stored
C29_Witness ==
    /\ ret.fn = "setAnalyticsData"
    /\ ret.arg = AnalyticsNotArray
    /\ currentAnalyticsData = Snapshot1
    /\ localStorage = JSON_stringify(Snapshot1)

(***************************************************************************)
(* InputPage.tsx: the onboarding page.  inputPage holds the useState       *)
(* values of the component, the setTimeout callbacks not yet run (timers)  *)
(* and the promises not yet settled (requests).                            *)
(***************************************************************************)
MaxTimers == 2       \* most setTimeout callbacks pending at once
MaxRequests == 2     \* most requests in flight at once

\* String.prototype.trim on the strings of the model
trim(str) ==
    CASE str = " ACME " -> "ACME"
      [] str = " crm " -> "crm"
      [] str = " " -> ""
      [] OTHER -> str

\* String.prototype.toLowerCase on the strings of the model
toLowerCase(str) ==
    CASE str = "Acme" -> "acme"
      [] str = "ACME" -> "acme"
      [] str = "Beta" -> "beta"
      [] str = "Gamma" -> "gamma"
      [] str = "Delta" -> "delta"
      [] OTHER -> str

\* lines 45-51: trim, lower case, no scheme, no www., no trailing slashes
normalizeDomain(input) ==
    CASE input = "" -> "https:///"
      [] input = " " -> "https:///"
      [] input = "acme" -> "https://acme/"
      [] input = "acme.com" -> "https://acme.com/"
      [] input = "https://acme.com/" -> "https://acme.com/"
      [] input = "https://www.Acme.com/" -> "https://acme.com/"
      [] input = "beta.io" -> "https://beta.io/"
      [] input = "https://beta.io/" -> "https://beta.io/"
      [] input = "gamma.com" -> "https://gamma.com/"
      [] input = "https://gamma.com/" -> "https://gamma.com/"
      [] OTHER -> "https://" \o input \o "/"

\* lines 264-270: domainRegex.test on the normalized value without scheme and slash
domainRegex_test(url) ==
    normalizeDomain(url) \in {"https://acme.com/", "https://beta.io/", "https://gamma.com/"}

\* lines 82-87
isSameCompetitor(a, b) ==
    IF a.website # "" /\ b.website # ""
    THEN normalizeDomain(a.website) = normalizeDomain(b.website)
    ELSE trim(toLowerCase(a.name)) = trim(toLowerCase(b.name))

Includes(array, x) == \E i \in 1..Len(array) : array[i] = x

SomeSame(array, competitor) == \E i \in 1..Len(array) : isSameCompetitor(array[i], competitor)

\* Array.from(new Set(array)): the first occurrence of each member
RECURSIVE Unique(_)
Unique(array) ==
    IF array = <<>> THEN <<>>
    ELSE LET front == Unique(SubSeq(array, 1, Len(array) - 1))
             last  == array[Len(array)]
         IN  IF Includes(front, last) THEN front ELSE Append(front, last)

\* a handler or continuation of the page has run and left the page as next
PageStep(fn, next) ==
    /\ inputPage.mounted
    /\ inputPage' = next
    /\ ret' = [fn |-> fn]
    /\ UNCHANGED <<currentAnalyticsData, localStorage, exports, callArgs, frame>>

\* lines 257-281, up to setTimeout: the status and the callback scheduled
checkDNS(page, url) ==
    IF trim(url) = "" THEN [page EXCEPT !.dnsStatus = "null"]
    ELSE [page EXCEPT !.dnsStatus = "checking",
                      !.timers = Append(@, [callback |-> "checkDNS", url |-> url])]

\* lines 294-331, up to the await: the request in flight
handleGenerateBrandDescription(page, url) ==
    [page EXCEPT !.isLoadingDescription = TRUE,
                 !.requests = Append(@, [fn |-> "fetchOnboardingData", url |-> url])]

\* lines 283-289; the form is rendered only while isAnalyzing is false (line 610)
handleWebsiteChange(value) ==
    /\ ~inputPage.isAnalyzing
    /\ ~inputPage.isWebsiteDisabled
    /\ Len(inputPage.timers) < MaxTimers
    /\ PageStep("handleWebsiteChange",
                checkDNS([inputPage EXCEPT !.brand = value,
                                           !.brandDescription = "",
                                           !.selectedCompetitors = <<>>,
                                           !.selectedKeywords = <<>>], value))

\* the first pending callback of checkDNS; callbacks of equal delay run in order
FirstCheck ==
    FirstIdx({i \in 1..Len(inputPage.timers) : inputPage.timers[i].callback = "checkDNS"})

Without(array, i) == SubSeq(array, 1, i - 1) \o SubSeq(array, i + 1, Len(array))

\* lines 263-280: the setTimeout callback of checkDNS(url)
checkDNS_timeout ==
    /\ inputPage.mounted
    /\ FirstCheck > 0
    /\ LET url     == inputPage.timers[FirstCheck].url
           isValid == domainRegex_test(url)
           checked == [inputPage EXCEPT !.timers = Without(@, FirstCheck),
                                        !.dnsStatus = IF isValid THEN "valid" ELSE "invalid"]
       IN  /\ isValid => Len(inputPage.requests) < MaxRequests
           /\ inputPage' = IF isValid THEN handleGenerateBrandDescription(checked, url)
                           ELSE checked
           /\ ret' = [fn |-> "checkDNS_timeout", url |-> url]
           /\ UNCHANGED <<currentAnalyticsData, localStorage, exports, callArgs, frame>>

\* the index of a pending request of fn, 0 when there is none
Pending(fn) == FirstIdx({i \in 1..Len(inputPage.requests) : inputPage.requests[i].fn = fn})

\* what the onboarding endpoint answers for a website
OnboardingData(url) ==
    [description |-> "about " \o normalizeDomain(url),
     name        |-> IF normalizeDomain(url) = "https://acme.com/" THEN "Acme" ELSE "Beta",
     competitors |-> <<[name |-> "Gamma", website |-> "gamma.com"],
                       [name |-> "Delta", website |-> ""]>>,
     keywords    |-> <<"crm", "sales">>]

\* lines 299-320: fetchOnboardingData(normalizedUrl) has resolved with data
handleGenerateBrandDescription_resolved ==
    \E i \in 1..Len(inputPage.requests) :
        /\ inputPage.requests[i].fn = "fetchOnboardingData"
        /\ LET data    == OnboardingData(inputPage.requests[i].url)
               IsNewC(nc) == ~SomeSame(inputPage.suggestedCompetitors, nc)
               IsNewK(k)  == ~Includes(inputPage.suggestedKeywords, k)
           IN  /\ inputPage' =
                       [inputPage EXCEPT
                           !.requests = Without(@, i),
                           !.brandDescription = data.description,
                           !.brandName = data.name,
                           !.suggestedCompetitors = @ \o SelectSeq(data.competitors, IsNewC),
                           !.suggestedKeywords = @ \o SelectSeq(data.keywords, IsNewK),
                           !.isLoadingDescription = FALSE]
               /\ ret' = [fn |-> "handleGenerateBrandDescription",
                          url |-> inputPage.requests[i].url]
               /\ UNCHANGED <<currentAnalyticsData, localStorage, exports, callArgs, frame>>

\* lines 321-330: fetchOnboardingData has rejected
handleGenerateBrandDescription_rejected ==
    \E i \in 1..Len(inputPage.requests) :
        /\ inputPage.requests[i].fn = "fetchOnboardingData"
        /\ PageStep("handleGenerateBrandDescription",
                    [inputPage EXCEPT !.requests = Without(@, i),
                                      !.isLoadingDescription = FALSE])

Rendered(array) == {array[i] : i \in 1..Len(array)}

\* lines 339-355; competitor is one of the rendered suggestions or selections
\* (the competitors section is rendered once there is a description, line 734)
toggleCompetitor(competitor) ==
    /\ ~inputPage.isAnalyzing
    /\ inputPage.brandDescription # ""
    /\ competitor \in Rendered(inputPage.suggestedCompetitors)
                          \cup Rendered(inputPage.selectedCompetitors)
    /\ LET selected == inputPage.selectedCompetitors
           Other(c) == ~isSameCompetitor(c, competitor)
       IN  PageStep("toggleCompetitor",
                    IF SomeSame(selected, competitor)
                    THEN [inputPage EXCEPT !.selectedCompetitors = SelectSeq(@, Other)]
                    ELSE IF Len(selected) >= 5 THEN inputPage
                    ELSE [inputPage EXCEPT !.selectedCompetitors = Append(@, competitor)])

\* lines 357-401
handleAddCustomCompetitor(customCompName, customCompWebsite) ==
    /\ ~inputPage.isAnalyzing
    /\ inputPage.brandDescription # ""
    /\ LET newComp == [name    |-> trim(customCompName),
                       website |-> normalizeDomain(customCompWebsite)]
       IN  PageStep("handleAddCustomCompetitor",
                    IF trim(customCompName) = "" \/ trim(customCompWebsite) = "" THEN inputPage
                    ELSE IF Len(inputPage.selectedCompetitors) >= 5 THEN inputPage
                    ELSE [inputPage EXCEPT
                             !.selectedCompetitors = Append(@, newComp),
                             !.suggestedCompetitors =
                                 IF SomeSame(@, newComp) THEN @ ELSE <<newComp>> \o @])

\* line 769: the button that empties the selection, shown while it is not empty
ClearAll ==
    /\ ~inputPage.isAnalyzing
    /\ inputPage.brandDescription # ""
    /\ inputPage.selectedCompetitors # <<>>
    /\ PageStep("ClearAll", [inputPage EXCEPT !.selectedCompetitors = <<>>])

\* the keywords section is rendered (line 906)
KeywordsShown ==
    /\ ~inputPage.isAnalyzing
    /\ Len(inputPage.selectedCompetitors) >= 1
    /\ Len(inputPage.suggestedKeywords) > 0

\* lines 409-418
toggleKeyword(keyword) ==
    /\ KeywordsShown
    /\ keyword \in Rendered(inputPage.suggestedKeywords) \cup Rendered(inputPage.selectedKeywords)
    /\ LET Other(k) == k # keyword
       IN  PageStep("toggleKeyword",
                    IF Includes(inputPage.selectedKeywords, keyword)
                    THEN [inputPage EXCEPT !.selectedKeywords = SelectSeq(@, Other)]
                    ELSE IF Len(inputPage.selectedKeywords) >= 3 THEN inputPage
                    ELSE [inputPage EXCEPT !.selectedKeywords = Append(@, keyword)])

\* lines 420-446
handleAddCustomKeyword(customKeyword) ==
    /\ KeywordsShown
    /\ LET newKw == trim(customKeyword)
       IN  PageStep("handleAddCustomKeyword",
                    IF newKw = "" THEN inputPage
                    ELSE IF Len(inputPage.selectedKeywords) >= 3 THEN inputPage
                    ELSE [inputPage EXCEPT
                             !.selectedKeywords = Append(@, newKw),
                             !.suggestedKeywords =
                                 IF Includes(@, newKw) THEN @ ELSE <<newKw>> \o @])

\* lines 113-139: the useState defaults
Mounted ==
    [mounted |-> TRUE, brand |-> "", brandName |-> "", dnsStatus |-> "null",
     brandDescription |-> "", isLoadingDescription |-> FALSE,
     suggestedCompetitors |-> <<>>, selectedCompetitors |-> <<>>,
     suggestedKeywords |-> <<>>, selectedKeywords |-> <<>>,
     isAnalyzing |-> FALSE, isLoading |-> FALSE, isNewAnalysis |-> FALSE,
     productId |-> "", isWebsiteDisabled |-> FALSE, applicationId |-> "app-1",
     timers |-> <<>>, requests |-> <<>>, navigated |-> FALSE]

\* lines 147-171 with lines 177-180: the effect that runs when the page is
\* mounted with location.state = state ("" stands for a field not given)
Mount(state) ==
    LET named    == [Mounted EXCEPT !.isNewAnalysis = state.isNewAnalysis,
                                    !.productId = state.productId,
                                    !.isWebsiteDisabled = state.disableWebsiteEdit]
        prefill  == IF state.prefillWebsite = "" THEN named
                    ELSE checkDNS([named EXCEPT !.brand = state.prefillWebsite],
                                  state.prefillWebsite)
    IN  IF state.productId = "" THEN prefill
        ELSE [prefill EXCEPT !.isLoading = TRUE,
                             !.requests = Append(@, [fn  |-> "getProductAnalytics",
                                                     url |-> state.prefillWebsite])]

\* analytics.brand_websites?.[b.brand] || ""
WebsiteOf(analytics, brandName) ==
    LET sites == IF Has(analytics, "brand_websites") THEN analytics.brand_websites ELSE <<>>
        hits  == {i \in 1..Len(sites) : sites[i].id = brandName}
    IN  IF hits = {} THEN "" ELSE sites[FirstIdx(hits)].website

\* lines 181-246: getProductAnalytics has resolved with res, whose most recent
\* analytics object is analytics; website is the second argument of the call.
\* brandDescription in line 237 is the value of the render that ran the
\* effect, the empty string.
handlePrePopulateData_resolved(analytics) ==
    /\ Pending("getProductAnalytics") > 0
    /\ LET website  == inputPage.requests[Pending("getProductAnalytics")].url
           settled  == [inputPage EXCEPT !.requests = Without(@, Pending("getProductAnalytics"))]
           keywords == IF Has(analytics, "search_keywords")
                       THEN [i \in 1..Len(analytics.search_keywords) |->
                                analytics.search_keywords[i].name]
                       ELSE <<>>
           subject  == IF Has(analytics, "brand_name") THEN analytics.brand_name ELSE ""
           IsRival(b) == toLowerCase(b) # toLowerCase(subject)
           rivals   == IF Has(analytics, "brands") THEN SelectSeq(analytics.brands, IsRival)
                       ELSE <<>>
           competitors == [i \in 1..Len(rivals) |->
                              [name |-> rivals[i], website |-> WebsiteOf(analytics, rivals[i])]]
           IsNewSuggested(nc) == ~SomeSame(inputPage.suggestedCompetitors, nc)
           IsNewSelected(nc)  == ~SomeSame(inputPage.selectedCompetitors, nc)
           summary  == IF Has(analytics, "executive_summary")
                       THEN analytics.executive_summary.conclusion ELSE ""
           filled   == [settled EXCEPT
                           !.brandDescription = IF summary # "" THEN summary ELSE @,
                           !.suggestedKeywords = Unique(keywords \o @),
                           !.selectedKeywords = Unique(@ \o keywords),
                           !.suggestedCompetitors = SelectSeq(competitors, IsNewSuggested) \o @,
                           !.selectedCompetitors = @ \o SelectSeq(competitors, IsNewSelected),
                           !.brandName = IF subject # "" THEN subject ELSE @]
           fetching == IF website # "" THEN handleGenerateBrandDescription(filled, website)
                       ELSE filled
       IN  PageStep("handlePrePopulateData", [fetching EXCEPT !.isLoading = FALSE])

\* lines 247-251: getProductAnalytics has rejected
handlePrePopulateData_rejected ==
    /\ Pending("getProductAnalytics") > 0
    /\ PageStep("handlePrePopulateData",
                [inputPage EXCEPT !.requests = Without(@, Pending("getProductAnalytics")),
                                  !.isLoading = FALSE])

(***************************************************************************)
(* SpecCompetitors: the competitor selection of the onboarding page.       *)
(***************************************************************************)
\* location.state of the mounts: a fresh page, and a page opened for a product
LocationStates ==
    {[prefillWebsite |-> "", productId |-> "", isNewAnalysis |-> FALSE,
      disableWebsiteEdit |-> FALSE],
     [prefillWebsite |-> "acme.com", productId |-> "p1", isNewAnalysis |-> TRUE,
      disableWebsiteEdit |-> FALSE],
     [prefillWebsite |-> "acme.com", productId |-> "p1", isNewAnalysis |-> TRUE,
      disableWebsiteEdit |-> TRUE]}

\* what the user types into the custom competitor fields
CustomCompetitors == {<<" ACME ", "https://www.Acme.com/">>, <<" ", "acme.com">>}

\* the analytics objects getProductAnalytics answers with
CompetitorAnalytics ==
    {[brand_name |-> "Acme", brands |-> <<"Acme", "Beta", "Gamma">>,
      brand_websites |-> <<[id |-> "Gamma", website |-> "https://gamma.com/"]>>],
     [brand_name |-> "Acme"]}

InitPage ==
    /\ currentAnalyticsData = Null
    /\ localStorage = NoEntry
    /\ ModuleLoaded
    /\ callArgs = NoArgs
    /\ ret = NoCall
    /\ frame = NoFrame
    /\ inputPage \in {Mount(state) : state \in LocationStates}

\* the competitors the page can show: onboarding suggestions, custom entries
\* and the rivals of the product's analytics
PageCompetitors ==
    {[name |-> "Gamma", website |-> "gamma.com"], [name |-> "Delta", website |-> ""],
     [name |-> "ACME", website |-> "https://acme.com/"], [name |-> "Beta", website |-> ""],
     [name |-> "Gamma", website |-> "https://gamma.com/"]}

NextCompetitors ==
    \/ handleWebsiteChange("acme.com")
    \/ checkDNS_timeout
    \/ handleGenerateBrandDescription_resolved
    \/ handleGenerateBrandDescription_rejected
    \/ \E competitor \in PageCompetitors : toggleCompetitor(competitor)
    \/ \E custom \in CustomCompetitors : handleAddCustomCompetitor(custom[1], custom[2])
    \/ ClearAll
    \/ \E analytics \in CompetitorAnalytics : handlePrePopulateData_resolved(analytics)
    \/ handlePrePopulateData_rejected

SpecCompetitors == InitPage /\ [][NextCompetitors]_vars

\* C23: selectedCompetitors never holds more than 5 entries, after any
\* sequence of toggleCompetitor, handleAddCustomCompetitor,
\* handlePrePopulateData, handleWebsiteChange and 'Clear All'.
C23_AtMostFiveCompetitors ==
    inputPage.mounted => Len(inputPage.selectedCompetitors) <= 5

\* C25: the onboarding selections are duplicate-free: no two entries of
\* selectedCompetitors are the same competitor under isSameCompetitor, and no
\* keyword string occurs twice in selectedKeywords.
C25_NoDuplicateSelections ==
    inputPage.mounted =>
        /\ \A i, j \in 1..Len(inputPage.selectedCompetitors) :
               i # j => ~isSameCompetitor(inputPage.selectedCompetitors[i],
                                          inputPage.selectedCompetitors[j])
        /\ \A i, j \in 1..Len(inputPage.selectedKeywords) :
               i # j => inputPage.selectedKeywords[i] # inputPage.selectedKeywords[j]

(***************************************************************************)
(* SpecKeywords: the keyword selection of the onboarding page.             *)
(***************************************************************************)
\* what the user types into the custom keyword field
CustomKeywords == {" crm ", "erp", " "}

PageKeywords == {"crm", "sales", "erp", "ai"}

KeywordAnalytics ==
    {[brand_name |-> "Acme",
      search_keywords |-> <<[id |-> "k1", name |-> "crm"], [id |-> "k2", name |-> "ai"]>>]}

NextKeywords ==
    \/ handleWebsiteChange("acme.com")
    \/ checkDNS_timeout
    \/ handleGenerateBrandDescription_resolved
    \/ handleGenerateBrandDescription_rejected
    \/ \E competitor \in PageCompetitors : toggleCompetitor(competitor)
    \/ \E keyword \in PageKeywords : toggleKeyword(keyword)
    \/ \E customKeyword \in CustomKeywords : handleAddCustomKeyword(customKeyword)
    \/ \E analytics \in KeywordAnalytics : handlePrePopulateData_resolved(analytics)
    \/ handlePrePopulateData_rejected

SpecKeywords == InitPage /\ [][NextKeywords]_vars

\* C24: selectedKeywords never holds more than 3 entries, after any sequence
\* of toggleKeyword, handleAddCustomKeyword, handlePrePopulateData and
\* handleWebsiteChange.
C24_AtMostThreeKeywords ==
    inputPage.mounted => Len(inputPage.selectedKeywords) <= 3

(***************************************************************************)
(* SpecDns: the website field, its delayed check and the onboarding fetch. *)
(***************************************************************************)
\* what the user types into the website field
Websites == {"", "acme", "acme.com", "beta.io"}

NextDns ==
    \/ \E value \in Websites : handleWebsiteChange(value)
    \/ checkDNS_timeout
    \/ handleGenerateBrandDescription_resolved
    \/ handleGenerateBrandDescription_rejected

SpecDns == InitPage /\ [][NextDns]_vars

\* C26: the delayed website check never acts on a stale input: whenever
\* dnsStatus is 'valid' the current website value passes the domain check; a
\* check timer started for an earlier value neither sets dnsStatus nor starts
\* the onboarding fetch, and the response of a fetch for an earlier value does
\* not overwrite brandDescription / brandName.
C26_NoStaleWebsiteCheck ==
    /\ [](inputPage.dnsStatus = "valid" => domainRegex_test(inputPage.brand))
    /\ [][(ret'.fn = "checkDNS_timeout" /\ ret'.url # inputPage.brand) =>
              /\ inputPage'.dnsStatus = inputPage.dnsStatus
              /\ inputPage'.requests = inputPage.requests]_vars
    /\ [][(/\ ret'.fn = "handleGenerateBrandDescription"
           /\ Has(ret', "url")
           /\ ret'.url # inputPage.brand) =>
              /\ inputPage'.brandDescription = inputPage.brandDescription
              /\ inputPage'.brandName = inputPage.brandName]_vars

(***************************************************************************)
(* SpecAnalysis: the launch button, from an empty page to /results.        *)
(***************************************************************************)
\* lines 597-601
canProceed ==
    /\ inputPage.dnsStatus = "valid"
    /\ inputPage.brandDescription # ""
    /\ Len(inputPage.selectedCompetitors) >= 4
    /\ Len(inputPage.selectedKeywords) >= 1

\* lines 553-554 and 592-593: setIsLoading(false); setIsAnalyzing(false)
Idle(page) == [page EXCEPT !.isLoading = FALSE, !.isAnalyzing = FALSE]

\* lines 503-521 and 566-584: setTimeout(..., 10000)
NavigateLater(page) ==
    [page EXCEPT !.timers = Append(@, [callback |-> "navigate", url |-> page.brand])]

\* lines 451-495 and 522-544, up to the first await. The button is rendered
\* with a selected keyword (line 1058) and enabled by canProceed and
\* !isLoading (line 1063). localStorage.setItem in line 484 stores the lock or
\* throws, and it is called before the try block is entered.
handleStartAnalysis ==
    /\ inputPage.mounted
    /\ ~inputPage.isAnalyzing
    /\ Len(inputPage.selectedKeywords) >= 1
    /\ canProceed /\ ~inputPage.isLoading
    /\ Len(inputPage.requests) < MaxRequests
    /\ UNCHANGED <<currentAnalyticsData, localStorage, exports, callArgs, frame>>
    /\ IF \/ Len(inputPage.selectedCompetitors) < 4
          \/ Len(inputPage.selectedKeywords) < 1
          \/ inputPage.applicationId = ""
       THEN /\ UNCHANGED inputPage
            /\ ret' = [fn |-> "handleStartAnalysis", accepted |-> FALSE]
       ELSE /\ ret' = [fn |-> "handleStartAnalysis", accepted |-> TRUE]
            /\ \E stored \in BOOLEAN :
                 LET started == [inputPage EXCEPT !.isAnalyzing = TRUE, !.isLoading = TRUE]
                     awaited == IF inputPage.isNewAnalysis /\ inputPage.productId # ""
                                THEN "generateWithKeywords" ELSE "Promise.all"
                 IN  inputPage' =
                         IF stored
                         THEN [started EXCEPT !.requests =
                                  Append(@, [fn |-> awaited, url |-> inputPage.brand])]
                         ELSE started

\* lines 495-521 (and part_002 lines 608-629 after the await of line 605):
\* generateWithKeywords has resolved; the three setItem calls store or throw
\* into the catch of lines 586-594
handleStartAnalysis_generated ==
    /\ Pending("generateWithKeywords") > 0
    /\ Len(inputPage.timers) < MaxTimers
    /\ \E stored \in BOOLEAN :
         LET settled == [inputPage EXCEPT
                            !.requests = Without(@, Pending("generateWithKeywords"))]
         IN  PageStep("handleStartAnalysis_generated",
                      IF stored THEN NavigateLater(settled) ELSE Idle(settled))

\* lines 586-594: the import or generateWithKeywords has rejected
handleStartAnalysis_rejected ==
    /\ Pending("generateWithKeywords") > 0
    /\ PageStep("handleStartAnalysis_rejected",
                Idle([inputPage EXCEPT
                         !.requests = Without(@, Pending("generateWithKeywords"))]))

\* what createProduct answers with
ProductData == {[id |-> "p2"], [name |-> "Acme"]}

\* lines 544 and 558-584: Promise.all has resolved with productRes = productData.
\* saveKeywordsOnce returns in line 97, the two entries having just been
\* written with at least one keyword.
handleStartAnalysis_created(productData) ==
    /\ Pending("Promise.all") > 0
    /\ Len(inputPage.timers) < MaxTimers
    /\ \E stored \in BOOLEAN :
         LET settled == [inputPage EXCEPT !.requests = Without(@, Pending("Promise.all"))]
         IN  PageStep("handleStartAnalysis_created",
                      IF stored THEN NavigateLater(settled) ELSE Idle(settled))

\* part_002 lines 585 and 599-629: as above, with generateWithKeywords
\* awaited (line 605) for a product that has an id
handleStartAnalysis_created_2(productData) ==
    /\ Pending("Promise.all") > 0
    /\ Len(inputPage.timers) < MaxTimers
    /\ \E stored \in BOOLEAN :
         LET settled == [inputPage EXCEPT !.requests = Without(@, Pending("Promise.all"))]
             awaited == [settled EXCEPT !.requests =
                            Append(@, [fn |-> "generateWithKeywords", url |-> inputPage.brand])]
         IN  PageStep("handleStartAnalysis_created",
                      IF ~stored THEN Idle(settled)
                      ELSE IF Has(productData, "id") THEN awaited
                      ELSE NavigateLater(settled))

\* lines 545-556: saveOnboardingSelections or createProduct has rejected
handleStartAnalysis_refused ==
    /\ Pending("Promise.all") > 0
    /\ PageStep("handleStartAnalysis_rejected",
                Idle([inputPage EXCEPT !.requests = Without(@, Pending("Promise.all"))]))

\* lines 503-521 and 566-584: the setTimeout callback; callbacks scheduled
\* earlier with the shorter delay of checkDNS have run
navigate_timeout ==
    /\ inputPage.mounted
    /\ inputPage.timers # <<>>
    /\ inputPage.timers[1].callback = "navigate"
    /\ PageStep("navigate_timeout",
                [inputPage EXCEPT !.timers = Tail(@),
                                  !.navigated = TRUE,
                                  !.isLoading = FALSE])

\* a request of the page settles
Settled ==
    \/ handleGenerateBrandDescription_resolved
    \/ handleGenerateBrandDescription_rejected
    \/ \E analytics \in CompetitorAnalytics : handlePrePopulateData_resolved(analytics)
    \/ handlePrePopulateData_rejected
    \/ handleStartAnalysis_generated
    \/ handleStartAnalysis_rejected
    \/ \E productData \in ProductData : handleStartAnalysis_created(productData)
    \/ \E productData \in ProductData : handleStartAnalysis_created_2(productData)
    \/ handleStartAnalysis_refused

NextAnalysis ==
    \/ handleWebsiteChange("acme.com")
    \/ checkDNS_timeout
    \/ handleGenerateBrandDescription_resolved
    \/ handleGenerateBrandDescription_rejected
    \/ \E analytics \in CompetitorAnalytics : handlePrePopulateData_resolved(analytics)
    \/ handlePrePopulateData_rejected
    \/ \E competitor \in PageCompetitors : toggleCompetitor(competitor)
    \/ \E custom \in CustomCompetitors : handleAddCustomCompetitor(custom[1], custom[2])
    \/ \E keyword \in PageKeywords : toggleKeyword(keyword)
    \/ handleStartAnalysis
    \/ handleStartAnalysis_generated
    \/ handleStartAnalysis_rejected
    \/ \E productData \in ProductData : handleStartAnalysis_created(productData)
    \/ \E productData \in ProductData : handleStartAnalysis_created_2(productData)
    \/ handleStartAnalysis_refused
    \/ navigate_timeout

SpecAnalysis == InitPage /\ [][NextAnalysis]_vars

\* every pending request settles and every scheduled callback runs
FairAnalysis ==
    /\ SpecAnalysis
    /\ WF_vars(Settled)
    /\ WF_vars(checkDNS_timeout)
    /\ WF_vars(navigate_timeout)

\* C30: a start that fails (saveOnboardingSelections, createProduct or
\* generateWithKeywords rejects) leaves the page idle, isAnalyzing and
\* isLoading both false; a navigation to /results is pending or performed
\* only for a start that has not failed; and after every accepted start
\* isLoading eventually becomes false.
C30_FailedStartReturnsToIdle ==
    /\ [][ret'.fn = "handleStartAnalysis_rejected" =>
              ~inputPage'.isAnalyzing /\ ~inputPage'.isLoading]_vars
    /\ [](inputPage.mounted /\ ~inputPage.isAnalyzing =>
              /\ ~inputPage.navigated
              /\ \A i \in 1..Len(inputPage.timers) :
                     inputPage.timers[i].callback # "navigate")
    /\ ((ret.fn = "handleStartAnalysis" /\ ret.accepted) ~> ~inputPage.isLoading)

====
